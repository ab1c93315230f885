--------------------------- MODULE RateLimitProofs ---------------------------
(***************************************************************************)
(* The limiters keep and do not exceed their quota, for any burst, period, *)
(* number of identities and of threads, though a bucket may be purged and  *)
(* made anew, or drawn on after it has left the map.                       *)
(***************************************************************************)
EXTENDS RateLimit, SequenceTheorems, FiniteSetTheorems, TLAPS

\* A longer product of a longer count.
LEMMA Products ==
  ASSUME NEW a \in Int, NEW b \in Int, NEW p \in Nat
  PROVE  a <= b => a * p <= b * p
  OBVIOUS

\* How many periods fit in a stretch of time.
LEMMA PeriodsFit ==
  ASSUME NEW p \in Nat \ {0}, NEW x \in Nat, NEW m \in Int
  PROVE  /\ m * p <= x => m <= x \div p
         /\ m * p > x => m > x \div p
  <1> DEFINE q == x \div p
  <1>1. q \in Nat /\ q * p <= x /\ x < (q + 1) * p
    OBVIOUS
  <1> HIDE DEF q
  <1>2. ASSUME m * p <= x, ~(m <= q) PROVE FALSE
    <2>1. m * p >= (q + 1) * p
      BY <1>1, <1>2, Products
    <2> QED BY <1>1, <1>2, <2>1
  <1>3. ASSUME m * p > x, ~(m > q) PROVE FALSE
    <2>1. m * p <= q * p
      BY <1>1, <1>3, Products
    <2> QED BY <1>1, <1>3, <2>1
  <1> QED BY <1>2, <1>3 DEF q
-----------------------------------------------------------------------------
\* A thread has at most two buckets to draw on, holds one only while it has
\* it to draw on, and not for long; a session is one draw.
Queue ==
  \A r \in Requests :
    LET q == req[r]
    IN  /\ Len(q.todo) + q.drew <= 2
        /\ q.todo # <<>> => q.outcome = None
        /\ q.holds # None => q.todo # <<>> /\ now - q.since <= MaxStall
        /\ kind = "initialize" /\ q.todo # <<>> => q.drew = 0 /\ Len(q.todo) = 1
        /\ kind = "initialize" /\ q.outcome = "limited" => q.drew = 0

TInv == TypeOK /\ Queue

\* Thread r is handed bucket id for k: the one in the map, or a new one that
\* takes the place of what the map had to give up.
Handed(r, k, id) ==
  /\ k = Head(req[r].todo) /\ req[r].todo # <<>> /\ req[r].holds = None
  /\ req' = [req EXCEPT ![r].holds = id, ![r].since = now]
  /\ \/ /\ map[k] # None /\ id = map[k].bucket
        /\ map' = [map EXCEPT ![k].seen = now]
        /\ UNCHANGED <<nextId, bucket, evicted>>
     \/ /\ map[k] = None /\ id = nextId + 1 /\ nextId' = nextId + 1
        /\ bucket' = Append(bucket, now)
        /\ \E gone \in Victims(k) :
             /\ evicted' = evicted \cup gone
             /\ map' = [x \in Keys |->
                  IF x = k THEN [bucket |-> nextId + 1, seen |-> now]
                  ELSE IF x \in gone \cup (SameMap(k) \ AfterPurge(k))
                  THEN None ELSE map[x]]

\* What a lookup does.
LEMMA LookupEffects ==
  ASSUME TInv, NEW r \in Requests, Lookup(r)
  PROVE  \E k \in Keys, id \in Nat : Handed(r, k, id)
  <1> DEFINE k == Head(req[r].todo)
  <1>1. req[r].todo # <<>> /\ req[r].holds = None
    BY DEF Lookup
  <1>2. k \in Keys
    BY <1>1 DEF TInv, TypeOK
  <1> HIDE DEF k
  <1>3. CASE map[k] # None
    <2>1. map[k].bucket \in Nat
      BY <1>2, <1>3 DEF TInv, TypeOK
    <2> QED BY <1>1, <1>2, <1>3, <2>1 DEF Lookup, Handed, k
  <1>4. CASE map[k] = None
    <2>1. nextId + 1 \in Nat
      BY DEF TInv, TypeOK
    <2> QED BY <1>1, <1>2, <1>4, <2>1 DEF Lookup, Handed, k, Entry, NewBucket
  <1> QED BY <1>3, <1>4

\* The state of a thread after a lookup.
LEMMA LookedUp ==
  ASSUME TInv, NEW r \in Requests, NEW id,
         req' = [req EXCEPT ![r].holds = id, ![r].since = now]
  PROVE  /\ req'[r] = [req[r] EXCEPT !.holds = id, !.since = now]
         /\ \A q \in Requests : q # r => req'[q] = req[q]
         /\ req'[r].holds = id /\ req'[r].since = now
         /\ req'[r].todo = req[r].todo /\ req'[r].drew = req[r].drew
         /\ req'[r].outcome = req[r].outcome
         /\ req' = [q \in Requests |-> req'[q]]
  <1>1. req[r] \in [todo : Seq(Keys), holds : 1..nextId \cup {None},
                    since : 0..now, drew : 0..2, outcome : {None, "ok", "limited"}]
    BY DEF TInv, TypeOK
  <1> QED BY <1>1 DEF TInv, TypeOK

\* What a draw does.
LEMMA DrawEffects ==
  ASSUME TInv, NEW r \in Requests, Draw(r)
  PROVE  /\ req[r].holds \in 1..nextId /\ req[r].todo # <<>>
         /\ Head(req[r].todo) \in Keys
         /\ UNCHANGED <<kind, now, map, nextId, calls, evicted>>
         /\ \A q \in Requests : q # r => req'[q] = req[q]
         /\ req'[r].holds = None /\ req'[r].since = 0
         /\ \/ /\ HasToken(req[r].holds) /\ bucket' = Drawn(req[r].holds)
               /\ passed' = [passed EXCEPT ![Head(req[r].todo)] = Append(@, now)]
               /\ req'[r] = [todo |-> Tail(req[r].todo), holds |-> None, since |-> 0,
                             drew |-> req[r].drew + 1,
                             outcome |-> IF Tail(req[r].todo) = <<>> THEN "ok" ELSE None]
            \/ /\ ~HasToken(req[r].holds) /\ UNCHANGED <<bucket, passed>>
               /\ req'[r] = [todo |-> <<>>, holds |-> None, since |-> 0,
                             drew |-> req[r].drew, outcome |-> "limited"]
  <1>1. req[r] \in [todo : Seq(Keys), holds : 1..nextId \cup {None},
                    since : 0..now, drew : 0..2, outcome : {None, "ok", "limited"}]
    BY DEF TInv, TypeOK
  <1>2. req[r].holds \in 1..nextId /\ req[r].todo # <<>>
    BY <1>1 DEF Draw, TInv, Queue
  <1>3. Head(req[r].todo) \in Keys
    BY <1>1, <1>2
  <1>4. UNCHANGED <<kind, now, map, nextId, calls, evicted>>
    BY DEF Draw
  <1>5. req \in [Requests -> [todo : Seq(Keys), holds : 1..nextId \cup {None},
                    since : 0..now, drew : 0..2, outcome : {None, "ok", "limited"}]]
    BY DEF TInv, TypeOK
  <1>6. ASSUME NEW q, req' = [req EXCEPT ![r] = q]
        PROVE  req'[r] = q /\ \A x \in Requests : x # r => req'[x] = req[x]
    BY <1>5, <1>6
  <1>7. CASE HasToken(req[r].holds)
    <2> DEFINE q == [todo |-> Tail(req[r].todo), holds |-> None, since |-> 0,
                     drew |-> req[r].drew + 1,
                     outcome |-> IF Tail(req[r].todo) = <<>> THEN "ok" ELSE None]
    <2>1. /\ bucket' = Drawn(req[r].holds) /\ req' = [req EXCEPT ![r] = q]
          /\ passed' = [passed EXCEPT ![Head(req[r].todo)] = Append(@, now)]
      BY <1>7 DEF Draw
    <2>2. q.holds = None /\ q.since = 0
      OBVIOUS
    <2> HIDE DEF q
    <2>3. req'[r] = q /\ \A x \in Requests : x # r => req'[x] = req[x]
      BY <1>6, <2>1
    <2> QED BY <1>2, <1>3, <1>4, <1>7, <2>1, <2>2, <2>3 DEF q
  <1>8. CASE ~HasToken(req[r].holds)
    <2> DEFINE q == [todo |-> <<>>, holds |-> None, since |-> 0,
                     drew |-> req[r].drew, outcome |-> "limited"]
    <2>1. UNCHANGED <<bucket, passed>> /\ req' = [req EXCEPT ![r] = q]
      BY <1>8 DEF Draw
    <2>2. q.holds = None /\ q.since = 0
      OBVIOUS
    <2> HIDE DEF q
    <2>3. req'[r] = q /\ \A x \in Requests : x # r => req'[x] = req[x]
      BY <1>6, <2>1
    <2> QED BY <1>2, <1>3, <1>4, <1>8, <2>1, <2>2, <2>3 DEF q
  <1> QED BY <1>7, <1>8

\* At the start there are no buckets and no calls.
LEMMA TInvInit == Init => TInv
  <1> SUFFICES ASSUME Init PROVE TInv
    OBVIOUS
  <1>1. NotCalled \in [todo : Seq(Keys), holds : 1..nextId \cup {None},
                       since : 0..now, drew : 0..2, outcome : {None, "ok", "limited"}]
    BY DEF Init, NotCalled
  <1>2. bucket \in [1..nextId -> Nat]
    BY DEF Init
  <1>3. TypeOK
    BY <1>1, <1>2, LimiterAssumption DEF Init, TypeOK
  <1>4. Queue
    <2> SUFFICES ASSUME NEW r \in Requests
                 PROVE  LET q == req[r]
                        IN  /\ Len(q.todo) + q.drew <= 2
                            /\ q.todo # <<>> => q.outcome = None
                            /\ q.holds # None => q.todo # <<>> /\ now - q.since <= MaxStall
                            /\ kind = "initialize" /\ q.todo # <<>>
                                 => q.drew = 0 /\ Len(q.todo) = 1
                            /\ kind = "initialize" /\ q.outcome = "limited" => q.drew = 0
      BY DEF Queue
    <2>1. req[r] = NotCalled
      BY DEF Init
    <2>2. Len(<<>>) = 0
      OBVIOUS
    <2> QED BY <2>1, <2>2 DEF NotCalled
  <1> QED BY <1>3, <1>4 DEF TInv

\* Every step keeps the types, and the queue of each thread in order.
LEMMA TInvStep == TInv /\ [Next]_vars => TInv'
  <1> SUFFICES ASSUME TInv, [Next]_vars PROVE TInv'
    OBVIOUS
  <1> DEFINE Thread(n, t) == [todo : Seq(Keys), holds : 1..n \cup {None}, since : 0..t,
                              drew : 0..2, outcome : {None, "ok", "limited"}]
  <1> DEFINE Orderly(q, t) ==
        /\ Len(q.todo) + q.drew <= 2
        /\ q.todo # <<>> => q.outcome = None
        /\ q.holds # None => q.todo # <<>> /\ t - q.since <= MaxStall
        /\ kind = "initialize" /\ q.todo # <<>> => q.drew = 0 /\ Len(q.todo) = 1
        /\ kind = "initialize" /\ q.outcome = "limited" => q.drew = 0
  <1>0. /\ req \in [Requests -> Thread(nextId, now)] /\ now \in Nat /\ nextId \in Nat
        /\ \A r \in Requests : Orderly(req[r], now)
        /\ bucket \in [1..nextId -> Nat]
        /\ map \in [Keys -> [bucket : 1..nextId, seen : 0..now] \cup {None}]
        /\ passed \in [Keys -> Seq(0..now)]
        /\ kind \in {"tool", "initialize"} /\ calls \in 0..MaxCalls /\ evicted \subseteq Keys
    BY DEF TInv, TypeOK, Queue
  <1>b. nextId \in Nat /\ bucket \in [1..nextId -> Nat] /\ now \in 0..now
    BY <1>0
  <1>a. MaxCalls \in Nat /\ MaxStall \in Nat /\ Period \in Nat
    BY LimiterAssumption
  <1>1. ASSUME NEW r \in Requests, NEW b \in Bearers, Check(r, b) PROVE TInv'
    <2> DEFINE q == [NotCalled EXCEPT !.todo = Charges(b)]
    <2>1. /\ Charges(b) \in Seq(Keys) /\ Len(Charges(b)) <= 2 /\ Len(Charges(b)) \in Nat
          /\ kind = "initialize" => Len(Charges(b)) = 1
      <3>1. b \in Keys /\ SubOf[b] \in Keys
        BY LimiterAssumption DEF Keys
      <3>2. <<b, SubOf[b]>> \in Seq(Keys) /\ Len(<<b, SubOf[b]>>) = 2
            /\ <<SubOf[b]>> \in Seq(Keys) /\ Len(<<SubOf[b]>>) = 1
        BY <3>1
      <3> QED BY <1>0, <3>2 DEF Charges, ToolCharges, InitializeCharges
    <2>2. /\ q.todo = Charges(b) /\ q.holds = None /\ q.since = 0 /\ q.drew = 0
          /\ q.outcome = None
          /\ q = [todo |-> Charges(b), holds |-> None, since |-> 0, drew |-> 0,
                  outcome |-> None]
      BY DEF NotCalled
    <2>3. req' = [req EXCEPT ![r] = q] /\ calls' = calls + 1 /\ calls < MaxCalls
          /\ UNCHANGED <<kind, now, map, nextId, bucket, passed, evicted>>
      BY <1>1 DEF Check
    <2> HIDE DEF q
    <2>4. q \in Thread(nextId, now) /\ Orderly(q, now)
      BY <1>0, <2>1, <2>2
    <2>5. req' \in [Requests -> Thread(nextId, now)]
          /\ \A x \in Requests : Orderly(req'[x], now)
      <3> HIDE DEF Thread, Orderly
      <3> QED BY <1>0, <2>3, <2>4
    <2>6. TypeOK'
      BY <1>0, <1>a, <2>3, <2>5 DEF TypeOK
    <2>7. Queue'
      BY <2>3, <2>5 DEF Queue
    <2> QED BY <2>6, <2>7 DEF TInv
  <1>2. ASSUME NEW r \in Requests, Lookup(r) PROVE TInv'
    <2>0. PICK k \in Keys, id \in Nat : Handed(r, k, id)
      BY <1>2, LookupEffects
    <2>1. /\ k = Head(req[r].todo) /\ req[r].todo # <<>> /\ req[r].holds = None
          /\ req' = [req EXCEPT ![r].holds = id, ![r].since = now]
          /\ \/ /\ map[k] # None /\ id = map[k].bucket
                /\ map' = [map EXCEPT ![k].seen = now]
                /\ UNCHANGED <<nextId, bucket, evicted>>
             \/ /\ map[k] = None /\ id = nextId + 1 /\ nextId' = nextId + 1
                /\ bucket' = Append(bucket, now)
                /\ \E gone \in Victims(k) :
                     /\ evicted' = evicted \cup gone
                     /\ map' = [x \in Keys |->
                          IF x = k THEN [bucket |-> nextId + 1, seen |-> now]
                          ELSE IF x \in gone \cup (SameMap(k) \ AfterPurge(k))
                          THEN None ELSE map[x]]
      BY <2>0 DEF Handed
    <2>2. UNCHANGED <<kind, now, calls, passed>>
      BY <1>2 DEF Lookup
    <2>3. /\ req'[r] = [req[r] EXCEPT !.holds = id, !.since = now]
          /\ \A q \in Requests : q # r => req'[q] = req[q]
          /\ req'[r].holds = id /\ req'[r].since = now
          /\ req'[r].todo = req[r].todo /\ req'[r].drew = req[r].drew
          /\ req'[r].outcome = req[r].outcome
          /\ req' = [q \in Requests |-> req'[q]]
      BY <2>1, LookedUp
    <2>4. /\ id \in 1..nextId' /\ nextId' \in Nat /\ 1..nextId \subseteq 1..nextId'
          /\ bucket' \in [1..nextId' -> Nat]
      <3>1. CASE map[k] # None
        <4>1. id = map[k].bucket /\ nextId' = nextId /\ bucket' = bucket
          BY <2>1, <3>1
        <4>2. map[k].bucket \in 1..nextId
          BY <1>0, <3>1
        <4>3. 1..nextId \subseteq 1..nextId' /\ id \in 1..nextId'
          BY <4>1, <4>2
        <4>4. nextId' \in Nat
          BY <1>b, <4>1
        <4>5. bucket' \in [1..nextId' -> Nat]
          BY <1>b, <4>1
        <4> QED BY <4>3, <4>4, <4>5
      <3>2. CASE map[k] = None
        <4>1. /\ Len(bucket) = nextId /\ bucket \in Seq(Nat)
          BY <1>0
        <4>2. bucket' = Append(bucket, now) /\ nextId' = nextId + 1 /\ id = nextId + 1
          BY <2>1, <3>2
        <4>3. bucket' \in Seq(Nat) /\ Len(bucket') = nextId + 1
          BY <1>b, <4>1, <4>2
        <4>4. bucket' \in [1..nextId' -> Nat]
          <5>1. \A q \in Seq(Nat) : q \in [1..Len(q) -> Nat]
            BY LenProperties
          <5>2. bucket' \in [1..Len(bucket') -> Nat] /\ Len(bucket') = nextId'
            BY <4>2, <4>3, <5>1
          <5> QED BY <5>2
        <4>5. id \in 1..nextId' /\ nextId' \in Nat /\ 1..nextId \subseteq 1..nextId'
          BY <1>b, <4>2
        <4> QED BY <4>4, <4>5
      <3> QED BY <3>1, <3>2
    <2>5. map' \in [Keys -> [bucket : 1..nextId', seen : 0..now] \cup {None}]
      <3>1. map \in [Keys -> [bucket : 1..nextId', seen : 0..now] \cup {None}]
        BY <1>0, <2>4
      <3>2. CASE map[k] # None
        <4>1. map' = [map EXCEPT ![k].seen = now]
          BY <2>1, <3>2
        <4> QED BY <1>0, <3>1, <3>2, <4>1
      <3>3. CASE map[k] = None
        <4>1. PICK gone \in Victims(k) :
                map' = [x \in Keys |->
                  IF x = k THEN [bucket |-> nextId + 1, seen |-> now]
                  ELSE IF x \in gone \cup (SameMap(k) \ AfterPurge(k))
                  THEN None ELSE map[x]]
          BY <2>1, <3>3
        <4>2. nextId + 1 \in 1..nextId' /\ now \in 0..now
          BY <1>b, <2>1, <2>4, <3>3
        <4> QED BY <3>1, <4>1, <4>2
      <3> QED BY <3>2, <3>3
    <2>6. evicted' \subseteq Keys
      <3>1. \A gone \in Victims(k) : gone \subseteq Keys
        BY DEF Victims, AfterPurge, SameMap, Keys
      <3> QED BY <1>0, <2>1, <3>1
    <2>7. req' \in [Requests -> Thread(nextId', now)]
      <3>1. req'[r] \in Thread(nextId', now)
        <4>1. req[r] \in Thread(nextId, now)
          BY <1>0
        <4>2. [req[r] EXCEPT !.holds = id] \in Thread(nextId', now)
          BY <2>4, <4>1
        <4>3. [[req[r] EXCEPT !.holds = id] EXCEPT !.since = now] \in Thread(nextId', now)
          BY <1>b, <4>2
        <4> QED BY <2>3, <4>3
      <3>2. \A q \in Requests : q # r => req'[q] \in Thread(nextId', now)
        BY <1>0, <2>3, <2>4
      <3> HIDE DEF Thread
      <3> QED BY <2>3, <3>1, <3>2
    <2>8. \A q \in Requests : Orderly(req'[q], now)
      <3>1. Orderly(req'[r], now)
        <4>1. Orderly(req[r], now) /\ now - now <= MaxStall
          BY <1>0, <1>a
        <4> QED BY <2>1, <2>3, <4>1
      <3> HIDE DEF Orderly
      <3> QED BY <1>0, <2>3, <3>1
    <2>9. TypeOK' /\ Queue'
      BY <1>0, <2>2, <2>4, <2>5, <2>6, <2>7, <2>8 DEF TypeOK, Queue
    <2> QED BY <2>9 DEF TInv
  <1>3. ASSUME NEW r \in Requests, Draw(r) PROVE TInv'
    <2> DEFINE k == Head(req[r].todo)
    <2>1. /\ req[r].holds \in 1..nextId /\ req[r].todo # <<>> /\ k \in Keys
          /\ UNCHANGED <<kind, now, map, nextId, calls, evicted>>
          /\ \A q \in Requests : q # r => req'[q] = req[q]
      BY <1>3, DrawEffects
    <2>2. /\ bucket' \in [1..nextId -> Nat] /\ passed' \in [Keys -> Seq(0..now)]
          /\ req'[r] \in Thread(nextId, now) /\ Orderly(req'[r], now)
      <3>0. /\ req[r].todo \in Seq(Keys) /\ req[r].drew \in 0..2
            /\ Tail(req[r].todo) \in Seq(Keys) /\ Len(req[r].todo) \in Nat \ {0}
            /\ Len(Tail(req[r].todo)) = Len(req[r].todo) - 1
            /\ Len(req[r].todo) + req[r].drew <= 2
            /\ kind = "initialize" => req[r].drew = 0 /\ Len(req[r].todo) = 1
        BY <1>0, <2>1
      <3>1. CASE HasToken(req[r].holds)
        <4>1. /\ bucket' = Drawn(req[r].holds)
              /\ passed' = [passed EXCEPT ![k] = Append(@, now)]
              /\ req'[r] = [todo |-> Tail(req[r].todo), holds |-> None, since |-> 0,
                            drew |-> req[r].drew + 1,
                            outcome |-> IF Tail(req[r].todo) = <<>> THEN "ok" ELSE None]
          BY <1>3, <3>1, DrawEffects
        <4>2. bucket' \in [1..nextId -> Nat]
          <5>1. bucket \in [1..nextId -> Nat] /\ now \in Nat /\ Period \in Nat
            BY <1>0, <1>a
          <5>2. bucket' = Drawn(req[r].holds) /\ req[r].holds \in 1..nextId
            BY <2>1, <4>1
          <5> QED BY <5>1, <5>2 DEF Drawn
        <4>3. passed' \in [Keys -> Seq(0..now)]
          <5>1. passed \in [Keys -> Seq(0..now)] /\ now \in 0..now /\ k \in Keys
            BY <1>0, <2>1
          <5>2. Append(passed[k], now) \in Seq(0..now)
            BY <5>1
          <5>3. passed' = [passed EXCEPT ![k] = Append(@, now)]
            BY <4>1
          <5> HIDE DEF k
          <5> QED BY <5>1, <5>2, <5>3
        <4>4. req'[r] \in Thread(nextId, now)
          <5>1. Tail(req[r].todo) \in Seq(Keys) /\ req[r].drew + 1 \in 0..2 /\ 0 \in 0..now
            BY <1>b, <3>0
          <5> QED BY <4>1, <5>1
        <4>5. Orderly(req'[r], now)
          <5> DEFINE t == Tail(req[r].todo)
          <5>1. t # <<>> => Len(t) > 0
            BY <3>0
          <5> HIDE DEF t
          <5>2. /\ req'[r].todo = t /\ req'[r].holds = None
                /\ req'[r].drew = req[r].drew + 1
                /\ req'[r].outcome = (IF t = <<>> THEN "ok" ELSE None)
            BY <4>1 DEF t
          <5>3. /\ Len(t) + (req[r].drew + 1) <= 2
                /\ kind = "initialize" => t = <<>>
            <6>1. Len(t) = Len(req[r].todo) - 1
              BY <3>0 DEF t
            <6>2. kind = "initialize" => Len(t) = 0
              BY <3>0, <6>1
            <6>3. Len(t) = 0 => t = <<>>
              BY <5>1
            <6>4. Len(t) + (req[r].drew + 1) <= 2
              BY <3>0, <6>1
            <6> QED BY <6>2, <6>3, <6>4
          <5> QED BY <5>2, <5>3
        <4> QED BY <4>2, <4>3, <4>4, <4>5
      <3>2. CASE ~HasToken(req[r].holds)
        <4>1. /\ UNCHANGED <<bucket, passed>>
              /\ req'[r] = [todo |-> <<>>, holds |-> None, since |-> 0,
                            drew |-> req[r].drew, outcome |-> "limited"]
          BY <1>3, <3>2, DrawEffects
        <4>2. Len(<<>>) = 0 /\ <<>> \in Seq(Keys)
          OBVIOUS
        <4> QED BY <1>0, <3>0, <4>1, <4>2
      <3> QED BY <3>1, <3>2
    <2>3. \E f : req' = [q \in Requests |-> f[q]]
      BY <1>0, <1>3 DEF Draw
    <2>4. req' \in [Requests -> Thread(nextId, now)]
          /\ \A q \in Requests : Orderly(req'[q], now)
      <3> HIDE DEF Thread, Orderly
      <3> QED BY <1>0, <2>1, <2>2, <2>3
    <2>5. TypeOK'
      BY <1>0, <2>1, <2>2, <2>4 DEF TypeOK
    <2>6. Queue'
      BY <2>1, <2>4 DEF Queue
    <2> QED BY <2>5, <2>6 DEF TInv
  <1>4. CASE Tick
    <2>1. /\ now' = now + 1
          /\ \A r \in Requests : req[r].holds # None => now - req[r].since < MaxStall
          /\ UNCHANGED <<kind, map, nextId, bucket, req, calls, passed, evicted>>
      BY <1>4 DEF Tick
    <2>2. 0..now \subseteq 0..now' /\ now' \in Nat
      BY <1>0, <2>1
    <2>3. /\ req \in [Requests -> Thread(nextId, now')]
          /\ map \in [Keys -> [bucket : 1..nextId, seen : 0..now'] \cup {None}]
      BY <1>0, <2>2
    <2>4. passed \in [Keys -> Seq(0..now')]
      <3>1. Seq(0..now) \subseteq Seq(0..now')
        BY <2>2, SeqMonotonic
      <3> QED BY <1>0, <3>1
    <2>5. TypeOK'
      BY <1>0, <2>1, <2>2, <2>3, <2>4 DEF TypeOK
    <2>6. \A r \in Requests : Orderly(req[r], now')
      <3> SUFFICES ASSUME NEW r \in Requests PROVE Orderly(req[r], now')
        OBVIOUS
      <3>1. req[r].since \in Nat /\ Orderly(req[r], now)
        BY <1>0
      <3>2. req[r].holds # None => now' - req[r].since <= MaxStall
        <4>1. req[r].holds # None => now - req[r].since < MaxStall
          BY <2>1
        <4>2. now' = now + 1 /\ now \in Nat /\ MaxStall \in Nat /\ req[r].since \in Nat
          BY <1>b, <1>a, <2>1, <3>1
        <4> QED BY <4>1, <4>2
      <3> QED BY <3>1, <3>2
    <2>7. Queue'
      BY <2>1, <2>6 DEF Queue
    <2> QED BY <2>5, <2>7 DEF TInv
  <1>5. CASE UNCHANGED vars
    BY <1>5 DEF vars, TInv, TypeOK, Queue
  <1> QED BY <1>1, <1>2, <1>3, <1>4, <1>5 DEF Next

\* TInv holds in every reachable state.
LEMMA Typed == Spec => []TInv
  BY TInvInit, TInvStep, PTL DEF Spec

\* The types of the limiters' state.
THEOREM TypeCorrect == Spec => []TypeOK
  BY Typed, PTL DEF TInv

\* A session refused has cost no token of any bucket (InitializeLimiter's one
\* charge per request).
THEOREM RefusalsAreFree == Spec => []RefusalIsFree
  <1>1. TInv => RefusalIsFree
    BY DEF TInv, Queue, RefusalIsFree
  <1> QED BY <1>1, Typed, PTL
-----------------------------------------------------------------------------
\* The map an identity belongs to.
Category(k) == IF k \in Bearers THEN Bearers ELSE Subs

\* What is put in a map of n or fewer, in the place of what was taken out.
LEMMA Replaced ==
  ASSUME NEW S, NEW A, NEW gone, NEW k, NEW n \in Nat \ {0}, IsFiniteSet(S),
         A \subseteq S, Cardinality(S) <= n, 
         \/ Cardinality(A) < n
         \/ \E v \in A : gone = {v}
  PROVE  Cardinality((A \ gone) \cup {k}) <= n /\ IsFiniteSet((A \ gone) \cup {k})
  <1> DEFINE B == A \ gone
  <1>1. /\ IsFiniteSet(A) /\ Cardinality(A) <= Cardinality(S)
        /\ Cardinality(A) \in Nat /\ Cardinality(S) \in Nat
    BY FS_Subset, FS_CardinalityType
  <1>2. IsFiniteSet(B) /\ Cardinality(B) \in Nat /\ Cardinality(B) <= Cardinality(A)
    BY <1>1, FS_Subset, FS_CardinalityType
  <1>3. Cardinality(B) < n
    <2>1. CASE Cardinality(A) < n
      BY <1>1, <1>2, <2>1
    <2>2. ASSUME NEW v \in A, gone = {v} PROVE Cardinality(B) < n
      <3>1. Cardinality(A \ {v}) = Cardinality(A) - 1
        BY <1>1, FS_RemoveElement
      <3> QED BY <1>1, <2>2, <3>1
    <2> QED BY <2>1, <2>2
  <1>4. /\ IsFiniteSet(B \cup {k})
        /\ Cardinality(B \cup {k}) = Cardinality(B) \/ Cardinality(B \cup {k}) = Cardinality(B) + 1
    BY <1>2, FS_AddElement
  <1> QED BY <1>2, <1>3, <1>4

\* No step grows a map past its bound.
LEMMA MapsBoundedStep ==
  ASSUME TInv, MapsBounded, [Next]_vars
  PROVE  MapsBounded'
  <1> SUFFICES ASSUME NEW k \in Keys PROVE (Cardinality(SameMap(k)) <= MaxBuckets)'
    BY DEF MapsBounded
  <1>1. Cardinality(SameMap(k)) <= MaxBuckets
    BY DEF MapsBounded
  <1>2. MaxBuckets \in Nat \ {0} /\ Bearers \cap Subs = {} /\ IsFiniteSet(Bearers)
        /\ IsFiniteSet(Subs)
    BY LimiterAssumption
  <1>3. \A x \in Keys : IsFiniteSet(SameMap(x)) /\ SameMap(x) \subseteq Category(x)
    <2> SUFFICES ASSUME NEW x \in Keys
                 PROVE IsFiniteSet(SameMap(x)) /\ SameMap(x) \subseteq Category(x)
      OBVIOUS
    <2>1. SameMap(x) \subseteq Category(x) /\ IsFiniteSet(Category(x))
      BY <1>2 DEF SameMap, Category
    <2> QED BY <2>1, FS_Subset
  <1>4. ASSUME SameMap(k)' \subseteq SameMap(k) PROVE Cardinality(SameMap(k)') <= MaxBuckets
    <2>1. Cardinality(SameMap(k)') <= Cardinality(SameMap(k))
          /\ Cardinality(SameMap(k)') \in Nat /\ Cardinality(SameMap(k)) \in Nat
      BY <1>3, <1>4, FS_Subset, FS_CardinalityType
    <2> QED BY <1>1, <1>2, <2>1
  <1>5. ASSUME NEW r \in Requests, Lookup(r)
        PROVE  Cardinality(SameMap(k)') <= MaxBuckets
    <2>0. PICK j \in Keys, id \in Nat : Handed(r, j, id)
      BY <1>5, LookupEffects
    <2>1. \/ map[j] # None /\ map' = [map EXCEPT ![j].seen = now]
          \/ map[j] = None /\ \E gone \in Victims(j) :
                 map' = [x \in Keys |->
                   IF x = j THEN [bucket |-> nextId + 1, seen |-> now]
                   ELSE IF x \in gone \cup (SameMap(j) \ AfterPurge(j)) THEN None
                   ELSE map[x]]
      BY <2>0 DEF Handed
    <2>2. CASE map[j] # None /\ map' = [map EXCEPT ![j].seen = now]
      <3>1. \A x \in Keys : map'[x] # None => map[x] # None
        BY <2>2 DEF TInv, TypeOK
      <3>2. SameMap(k)' \subseteq SameMap(k)
        BY <3>1 DEF SameMap, Keys
      <3> QED BY <1>4, <3>2
    <2>3. ASSUME NEW gone \in Victims(j), map[j] = None,
                 map' = [x \in Keys |->
                     IF x = j THEN [bucket |-> nextId + 1, seen |-> now]
                     ELSE IF x \in gone \cup (SameMap(j) \ AfterPurge(j)) THEN None
                     ELSE map[x]]
          PROVE  Cardinality(SameMap(k)') <= MaxBuckets
      <3>1. \A x \in Keys \ {j} :
              map'[x] # None => map[x] # None /\ x \notin gone
                                /\ (x \in SameMap(j) => x \in AfterPurge(j))
        BY <2>3
      <3>2. CASE Category(k) = Category(j)
        <4>1. SameMap(k)' \subseteq (AfterPurge(j) \ gone) \cup {j}
          BY <3>1, <3>2 DEF SameMap, Category, Keys
        <4>2. SameMap(j) = SameMap(k)
          BY <3>2 DEF SameMap, Category
        <4>3. AfterPurge(j) \subseteq SameMap(j)
          BY DEF AfterPurge
        <4>4. Cardinality(AfterPurge(j)) < MaxBuckets \/ \E v \in AfterPurge(j) : gone = {v}
          BY <2>3 DEF Victims
        <4>5. /\ Cardinality((AfterPurge(j) \ gone) \cup {j}) <= MaxBuckets
              /\ IsFiniteSet((AfterPurge(j) \ gone) \cup {j})
          <5>1. Cardinality(SameMap(j)) <= MaxBuckets /\ IsFiniteSet(SameMap(j))
            BY <1>1, <1>3, <4>2
          <5> QED BY <1>2, <4>3, <4>4, <5>1, Replaced
        <4>6. /\ Cardinality(SameMap(k)') <= Cardinality((AfterPurge(j) \ gone) \cup {j})
              /\ Cardinality(SameMap(k)') \in Nat
              /\ Cardinality((AfterPurge(j) \ gone) \cup {j}) \in Nat
          BY <4>1, <4>5, FS_Subset, FS_CardinalityType
        <4> QED BY <1>2, <4>5, <4>6
      <3>3. CASE Category(k) # Category(j)
        <4>1. j \notin Category(k)
          BY <1>2, <3>3 DEF Category, Keys
        <4>2. SameMap(k)' \subseteq SameMap(k)
          BY <3>1, <4>1 DEF SameMap, Category, Keys
        <4> QED BY <1>4, <4>2
      <3> QED BY <3>2, <3>3
    <2> QED BY <2>1, <2>2, <2>3
  <1>6. ASSUME map' = map PROVE Cardinality(SameMap(k)') <= MaxBuckets
    BY <1>4, <1>6 DEF SameMap
  <1> QED BY <1>5, <1>6 DEF Next, vars, Check, Draw, Tick

\* MAX_BUCKETS_PER_MAP bounds every map of the limiters.
THEOREM MapsAreBounded == Spec => []MapsBounded
  <1>1. Init => MapsBounded
    <2> SUFFICES ASSUME Init, NEW k \in Keys PROVE Cardinality(SameMap(k)) <= MaxBuckets
      BY DEF MapsBounded
    <2>1. SameMap(k) = {}
      BY DEF Init, SameMap, Keys
    <2> QED BY <2>1, FS_EmptySet, LimiterAssumption
  <1> QED BY <1>1, Typed, MapsBoundedStep, PTL DEF Spec
-----------------------------------------------------------------------------
\* When a bucket that was full before request i, and let it and those after
\* it through, would be full again if none of its time was wasted.
Due(log, i) == log[i] + (Len(log) - i + 1) * Period

\* A bucket full at x has paid for every request of log.
Paid(log, x) == \A i \in DOMAIN log : Due(log, i) <= x

\* A bucket full at x owes this to the requests of log, or is full at t.
Owed(log, x, t) == x <= t \/ \E i \in DOMAIN log : x <= Due(log, i)

\* A sum of periods.
LEMMA Sums ==
  ASSUME NEW a \in Int, NEW b \in Int, NEW p \in Nat
  PROVE  (a + b) * p = a * p + b * p /\ (a - b) * p = a * p - b * p
         /\ a * p \in Int /\ 1 * p = p
  OBVIOUS

\* One request more makes each due a period later.
LEMMA DueAppend ==
  ASSUME NEW log \in Seq(Nat), NEW t \in Nat
  PROVE  LET new == Append(log, t)
         IN  /\ DOMAIN log = 1..Len(log) /\ Len(log) \in Nat
             /\ DOMAIN new = 1..(Len(log) + 1)
             /\ new[Len(log) + 1] = t
             /\ Due(new, Len(log) + 1) = t + Period
             /\ \A i \in DOMAIN log : /\ Due(log, i) \in Int /\ new[i] = log[i]
                                      /\ log[i] \in Nat
                                      /\ Due(new, i) = Due(log, i) + Period
  <1> DEFINE new == Append(log, t)
  <1> DEFINE n == Len(log)
  <1>1. /\ n \in Nat /\ Len(new) = n + 1 /\ DOMAIN log = 1..n /\ DOMAIN new = 1..(n + 1)
        /\ new[n + 1] = t /\ \A i \in 1..n : new[i] = log[i] /\ log[i] \in Nat
    OBVIOUS
  <1>p. Period \in Nat
    BY LimiterAssumption
  <1> HIDE DEF new, n
  <1>2. Due(new, n + 1) = t + Period
    <2>1. Len(new) - (n + 1) + 1 = 1
      BY <1>1
    <2>2. Due(new, n + 1) = t + 1 * Period
      BY <1>1, <2>1 DEF Due
    <2> QED BY <1>p, <2>2, Sums
  <1>3. ASSUME NEW i \in 1..n
        PROVE  Due(log, i) \in Int /\ Due(new, i) = Due(log, i) + Period
    <2> DEFINE m == n - i + 1
    <2>1. m \in Int /\ Len(new) - i + 1 = m + 1
      BY <1>1
    <2> HIDE DEF m
    <2>2. m * Period \in Int /\ (m + 1) * Period = m * Period + Period
      BY <1>p, <2>1, Sums
    <2>3. Due(log, i) = log[i] + m * Period
      BY DEF Due, n, m
    <2>4. Due(new, i) = log[i] + (m + 1) * Period
      BY <1>1, <2>1 DEF Due
    <2> QED BY <1>1, <1>p, <2>2, <2>3, <2>4
  <1> QED BY <1>1, <1>2, <1>3 DEF new, n

\* A draw pays for the request it lets through.
LEMMA PaidAppend ==
  ASSUME NEW log \in Seq(Nat), NEW t \in Nat, NEW x \in Nat, NEW y \in Nat,
         Paid(log, x), x + Period <= y, t + Period <= y
  PROVE  Paid(Append(log, t), y)
  <1>p. Period \in Nat
    BY LimiterAssumption
  <1> SUFFICES ASSUME NEW i \in DOMAIN Append(log, t) PROVE Due(Append(log, t), i) <= y
    BY DEF Paid
  <1>1. CASE i = Len(log) + 1
    BY <1>1, DueAppend
  <1>2. CASE i # Len(log) + 1
    <2>1. i \in DOMAIN log
      BY <1>2, DueAppend
    <2>2. Due(log, i) <= x
      BY <2>1 DEF Paid
    <2>3. Due(log, i) \in Int /\ Due(Append(log, t), i) = Due(log, i) + Period
      BY <2>1, DueAppend
    <2> QED BY <1>p, <2>2, <2>3
  <1> QED BY <1>1, <1>2

\* A draw puts no more into a bucket than the requests owe.
LEMMA OwedAppend ==
  ASSUME NEW log \in Seq(Nat), NEW t \in Nat, NEW x \in Nat, Owed(log, x, t)
  PROVE  /\ Owed(Append(log, t), x, t)
         /\ Owed(Append(log, t), (IF x > t THEN x ELSE t) + Period, t)
  <1>p. Period \in Nat
    BY LimiterAssumption
  <1>1. CASE x <= t
    <2>1. Len(log) + 1 \in DOMAIN Append(log, t)
          /\ Due(Append(log, t), Len(log) + 1) = t + Period
      BY DueAppend
    <2>2. (IF x > t THEN x ELSE t) + Period = t + Period
      BY <1>1
    <2> QED BY <1>1, <1>p, <2>1, <2>2 DEF Owed
  <1>2. CASE ~(x <= t)
    <2>1. PICK i \in DOMAIN log : x <= Due(log, i)
      BY <1>2 DEF Owed
    <2>2. /\ i \in DOMAIN Append(log, t) /\ Due(log, i) \in Int
          /\ Due(Append(log, t), i) = Due(log, i) + Period
      BY DueAppend
    <2>3. x <= Due(Append(log, t), i) /\ x + Period <= Due(Append(log, t), i)
      BY <1>p, <2>1, <2>2
    <2>4. (IF x > t THEN x ELSE t) + Period = x + Period
      BY <1>2
    <2> QED BY <2>2, <2>3, <2>4 DEF Owed
  <1> QED BY <1>1, <1>2

\* The requests from i on, and how late the bucket is: what fits in the time
\* since i, and what does not.
LEMMA Stretch ==
  ASSUME NEW log \in Seq(Nat), NEW t \in Nat, NEW x \in Nat, NEW i \in DOMAIN log,
         log[i] <= t
  PROVE  LET m == Len(log) + 1 - i + 1
         IN  /\ Due(log, i) <= x /\ x - t <= (Burst - 1) * Period
                  => m <= Burst + (t - log[i]) \div Period
             /\ x <= Due(log, i) /\ x - t > (Burst - 1) * Period
                  => m > Burst + (t - log[i]) \div Period
  <1> DEFINE a == Len(log) - i + 1
  <1> DEFINE b == Burst - 1
  <1> DEFINE d == t - log[i]
  <1> DEFINE q == d \div Period
  <1>1. a \in Int /\ log[i] \in Nat /\ i \in Int /\ Len(log) \in Nat
    BY DueAppend
  <1>2. b \in Int /\ Period \in Nat \ {0} /\ Burst \in Nat
    BY LimiterAssumption
  <1>3. d \in Nat
    BY <1>1
  <1>4. Due(log, i) = log[i] + a * Period
    BY DEF Due
  <1>m. Len(log) + 1 - i + 1 = (a - b) + Burst
    BY <1>1, <1>2
  <1> HIDE DEF a, b, q
  <1>5. (a - b) * Period = a * Period - b * Period
        /\ a * Period \in Int /\ b * Period \in Int
    BY <1>1, <1>2, Sums
  <1>6. /\ (a - b) * Period <= d => a - b <= q
        /\ (a - b) * Period > d => a - b > q
    <2>1. a - b \in Int
      BY <1>1, <1>2
    <2> HIDE DEF d
    <2> QED BY <1>2, <1>3, <2>1, PeriodsFit DEF q
  <1>q. q \in Int
    <2> HIDE DEF d
    <2> QED BY <1>2, <1>3 DEF q
  <1>7. ASSUME Due(log, i) <= x, x - t <= b * Period PROVE a - b <= q
    <2>1. a * Period - b * Period <= d
      BY <1>1, <1>4, <1>5, <1>7
    <2> QED BY <1>5, <1>6, <2>1
  <1>8. ASSUME x <= Due(log, i), x - t > b * Period PROVE a - b > q
    <2>1. a * Period - b * Period > d
      BY <1>1, <1>4, <1>5, <1>8
    <2> QED BY <1>5, <1>6, <2>1
  <1>9. /\ a - b <= q => Len(log) + 1 - i + 1 <= Burst + q
        /\ a - b > q => Len(log) + 1 - i + 1 > Burst + q
    BY <1>1, <1>2, <1>m, <1>q
  <1> QED BY <1>7, <1>8, <1>9 DEF b, q

\* What a bucket with a token lets through keeps the log allowed.
LEMMA AllowedAppend ==
  ASSUME NEW t \in Nat, NEW log \in Seq(0..t), NEW x \in Nat,
         Allowed(log), Paid(log, x), x - t <= (Burst - 1) * Period
  PROVE  Allowed(Append(log, t))
  <1> DEFINE new == Append(log, t)
  <1>0. log \in Seq(Nat)
    OBVIOUS
  <1>1. /\ DOMAIN log = 1..Len(log) /\ Len(log) \in Nat
        /\ DOMAIN new = 1..(Len(log) + 1) /\ new[Len(log) + 1] = t
        /\ \A i \in DOMAIN log : new[i] = log[i] /\ log[i] \in 0..t
    OBVIOUS
  <1> HIDE DEF new
  <1> SUFFICES ASSUME NEW i \in DOMAIN new, NEW j \in DOMAIN new, i <= j
               PROVE  j - i + 1 <= Burst + (new[j] - new[i]) \div Period
    BY DEF Allowed, new
  <1>2. CASE j \in DOMAIN log
    <2>1. i \in DOMAIN log
      BY <1>1, <1>2
    <2> QED BY <1>1, <1>2, <2>1 DEF Allowed
  <1>3. CASE j = Len(log) + 1 /\ i \in DOMAIN log
    <2>1. Due(log, i) <= x
      BY <1>3 DEF Paid
    <2>2. log[i] <= t
      BY <1>1, <1>3
    <2>3. Len(log) + 1 - i + 1 <= Burst + (t - log[i]) \div Period
      BY <1>0, <1>3, <2>1, <2>2, Stretch
    <2> QED BY <1>1, <1>3, <2>3
  <1>4. CASE j = Len(log) + 1 /\ i = j
    <2>1. Period \in Nat \ {0} /\ Burst \in Nat \ {0}
      BY LimiterAssumption
    <2>2. new[j] - new[i] = 0 /\ j - i + 1 = 1
      BY <1>1, <1>4
    <2>3. 0 \div Period = 0
      BY <2>1
    <2> QED BY <2>1, <2>2, <2>3
  <1> QED BY <1>1, <1>2, <1>3, <1>4

\* What a bucket without one refuses would not have been allowed.
LEMMA RefusedAppend ==
  ASSUME NEW t \in Nat, NEW log \in Seq(0..t), NEW x \in Nat,
         Owed(log, x, t), x - t > (Burst - 1) * Period
  PROVE  ~Allowed(Append(log, t))
  <1> DEFINE new == Append(log, t)
  <1>0. log \in Seq(Nat)
    OBVIOUS
  <1>1. /\ DOMAIN log = 1..Len(log) /\ Len(log) \in Nat
        /\ DOMAIN new = 1..(Len(log) + 1) /\ new[Len(log) + 1] = t
        /\ \A i \in DOMAIN log : new[i] = log[i] /\ log[i] \in 0..t
    OBVIOUS
  <1>2. ~(x <= t)
    <2>1. Burst - 1 \in Nat /\ Period \in Nat
      BY LimiterAssumption
    <2>2. (Burst - 1) * Period \in Nat
      BY <2>1
    <2> QED BY <2>2
  <1>3. PICK i \in DOMAIN log : x <= Due(log, i)
    BY <1>2 DEF Owed
  <1>4. log[i] <= t
    BY <1>1
  <1>5. Len(log) + 1 - i + 1 > Burst + (t - log[i]) \div Period
    BY <1>0, <1>3, <1>4, Stretch
  <1> HIDE DEF new
  <1> SUFFICES ASSUME Allowed(new) PROVE FALSE
    BY DEF new
  <1>6. i \in DOMAIN new /\ Len(log) + 1 \in DOMAIN new /\ i <= Len(log) + 1
    BY <1>1
  <1>7. Len(log) + 1 - i + 1 <= Burst + (new[Len(log) + 1] - new[i]) \div Period
    BY <1>6 DEF Allowed
  <1>8. new[Len(log) + 1] = t /\ new[i] = log[i]
    BY <1>1
  <1>9. (t - log[i]) \div Period \in Int /\ Burst \in Int
    <2>1. t - log[i] \in Int /\ Period \in Nat \ {0} /\ Burst \in Int
      BY <1>1, LimiterAssumption
    <2> QED BY <2>1
  <1> QED BY <1>1, <1>5, <1>7, <1>8, <1>9
-----------------------------------------------------------------------------
\* Thread r is about to draw on a bucket of k.
Holding(r, k) == req[r].holds # None /\ Head(req[r].todo) = k

\* Bucket id is k's: the one in the map, or one a thread still holds.
Claims(id, k) ==
  \/ map[k] # None /\ map[k].bucket = id
  \/ \E r \in Requests : Holding(r, k) /\ req[r].holds = id

\* No two identities share a bucket.
Distinct ==
  \A k, j \in Keys : \A id \in 1..nextId : Claims(id, k) /\ Claims(id, j) => k = j

\* No bucket holds more than what the requests let through owe it.
Fair == \A k \in Keys : \A id \in 1..nextId : Claims(id, k) => Owed(passed[k], bucket[id], now)

\* The bucket in the map has paid for every request of an identity that lost
\* none in use, so it is the only one held, and it is full again by the time
\* it is idle.
Kept(k) ==
  /\ map[k] = None => Paid(passed[k], now) /\ \A r \in Requests : ~Holding(r, k)
  /\ map[k] # None =>
       /\ Paid(passed[k], bucket[map[k].bucket])
       /\ bucket[map[k].bucket] <= map[k].seen + MaxStall + Burst * Period
       /\ \A r \in Requests : Holding(r, k) => /\ req[r].holds = map[k].bucket
                                               /\ req[r].since <= map[k].seen

Charged == \A k \in Keys \ evicted : Allowed(passed[k]) /\ Kept(k)

GInv == Distinct /\ Fair /\ Charged

\* The types, one variable at a time.
LEMMA Types ==
  ASSUME TInv
  PROVE  /\ now \in Nat /\ nextId \in Nat /\ bucket \in [1..nextId -> Nat]
         /\ \A k \in Keys : map[k] # None =>
              map[k].bucket \in 1..nextId /\ map[k].seen \in 0..now
         /\ \A k \in Keys : passed[k] \in Seq(0..now) /\ passed[k] \in Seq(Nat)
         /\ \A r \in Requests : /\ req[r].holds # None => req[r].holds \in 1..nextId
                                /\ req[r].since \in 0..now
                                /\ req[r].holds # None => now - req[r].since <= MaxStall
  <1>1. \A k \in Keys : passed[k] \in Seq(0..now)
    BY DEF TInv, TypeOK
  <1>2. now \in Nat /\ nextId \in Nat /\ bucket \in [1..nextId -> Nat]
    BY DEF TInv, TypeOK
  <1>3. \A k \in Keys : passed[k] \in Seq(Nat)
    <2>1. 0..now \subseteq Nat
      BY <1>2
    <2>2. Seq(0..now) \subseteq Seq(Nat)
      BY <2>1, SeqMonotonic
    <2> QED BY <1>1, <2>2
  <1>4. \A k \in Keys : map[k] # None =>
              map[k].bucket \in 1..nextId /\ map[k].seen \in 0..now
    BY DEF TInv, TypeOK
  <1>5. \A r \in Requests : /\ req[r].holds # None => req[r].holds \in 1..nextId
                            /\ req[r].since \in 0..now
    BY DEF TInv, TypeOK
  <1>6. \A r \in Requests : req[r].holds # None => now - req[r].since <= MaxStall
    BY DEF TInv, Queue
  <1> QED BY <1>1, <1>2, <1>3, <1>4, <1>5, <1>6

\* Quantities of time.
LEMMA Times ==
  /\ Burst * Period \in Nat /\ (Burst - 1) * Period \in Nat
  /\ (Burst - 1) * Period + Period = Burst * Period
  /\ MaxStall \in Nat /\ Period \in Nat \ {0} /\ BucketIdleTtl \in Nat
  /\ BucketIdleTtl >= Burst * Period + MaxStall
  /\ Burst * Period >= 1
  <1>1. Burst \in Nat \ {0} /\ Period \in Nat \ {0}
    BY LimiterAssumption
  <1>2. Burst - 1 \in Nat
    BY <1>1
  <1>3. (Burst - 1) * Period \in Nat
    BY <1>1, <1>2
  <1>4. (Burst - 1 + 1) * Period = (Burst - 1) * Period + 1 * Period /\ 1 * Period = Period
    BY <1>1, <1>2, Sums
  <1>5. Burst - 1 + 1 = Burst
    BY <1>1
  <1>6. Burst * Period = (Burst - 1) * Period + Period
    BY <1>4, <1>5
  <1>7. MaxStall \in Nat /\ BucketIdleTtl \in Nat
        /\ BucketIdleTtl >= Burst * Period + MaxStall
    BY LimiterAssumption
  <1> QED BY <1>1, <1>3, <1>6, <1>7

\* What is paid or owed stays so as time passes.
LEMMA Later ==
  ASSUME NEW log \in Seq(Nat), NEW x \in Nat, NEW y \in Nat, x <= y, NEW z
  PROVE  /\ Paid(log, x) => Paid(log, y)
         /\ z \in Nat /\ Owed(log, z, x) => Owed(log, z, y)
  <1>1. \A i \in DOMAIN log : Due(log, i) \in Int
    BY DueAppend
  <1> QED BY <1>1 DEF Paid, Owed

\* At the start nobody has been let through.
LEMMA GInvInit == Init => GInv
  <1> SUFFICES ASSUME Init PROVE GInv
    OBVIOUS
  <1>1. /\ \A k \in Keys : map[k] = None /\ passed[k] = <<>>
        /\ \A r \in Requests : req[r].holds = None
        /\ nextId = 0
    BY DEF Init, NotCalled
  <1>2. 1..nextId = {}
    BY <1>1
  <1>3. Distinct /\ Fair
    BY <1>2 DEF Distinct, Fair
  <1>4. \A k \in Keys : Allowed(passed[k]) /\ Paid(passed[k], now)
    BY <1>1 DEF Allowed, Paid
  <1>5. Charged
    BY <1>1, <1>4 DEF Charged, Kept, Holding
  <1> QED BY <1>3, <1>5 DEF GInv

\* A step that draws nothing and hands out nothing keeps every account.
LEMMA GIdle ==
  ASSUME TInv, TInv', GInv, UNCHANGED <<map, nextId, bucket, passed, evicted>>, now <= now',
         \A r \in Requests : req'[r].holds # None => req'[r] = req[r]
  PROVE  GInv'
  <1>1. \A r \in Requests, k \in Keys : Holding(r, k)' => Holding(r, k) /\ req'[r] = req[r]
    BY DEF Holding
  <1>2. \A k \in Keys : \A id \in 1..nextId : Claims(id, k)' => Claims(id, k)
    BY <1>1 DEF Claims
  <1>3. Distinct'
    BY <1>2 DEF GInv, Distinct
  <1>4. now \in Nat /\ now' \in Nat
    BY DEF TInv, TypeOK
  <1>5. Fair'
    <2> SUFFICES ASSUME NEW k \in Keys, NEW id \in 1..nextId, Claims(id, k)
                 PROVE  Owed(passed[k], bucket[id], now')
      BY <1>2 DEF Fair
    <2>1. Owed(passed[k], bucket[id], now)
      BY DEF GInv, Fair
    <2>2. passed[k] \in Seq(Nat) /\ bucket[id] \in Nat
      BY Types
    <2> QED BY <1>4, <2>1, <2>2, Later
  <1>6. Charged'
    <2> SUFFICES ASSUME NEW k \in Keys \ evicted PROVE Allowed(passed[k]) /\ Kept(k)'
      BY DEF Charged
    <2>1. Allowed(passed[k]) /\ Kept(k)
      BY DEF GInv, Charged
    <2>2. Paid(passed[k], now) => Paid(passed[k], now')
      <3>1. passed[k] \in Seq(Nat)
        BY Types
      <3> QED BY <1>4, <3>1, Later
    <2> QED BY <1>1, <2>1, <2>2 DEF Kept
  <1> QED BY <1>3, <1>5, <1>6 DEF GInv

\* A token drawn is charged to the identity whose bucket it was in.
LEMMA GDrawn ==
  ASSUME TInv, TInv', GInv, NEW r \in Requests, Draw(r), HasToken(req[r].holds)
  PROVE  GInv'
  <1> DEFINE k0 == Head(req[r].todo)
  <1> DEFINE id0 == req[r].holds
  <1> DEFINE drawn == (IF bucket[id0] > now THEN bucket[id0] ELSE now) + Period
  <1>1. /\ id0 \in 1..nextId /\ k0 \in Keys /\ id0 # None /\ Holding(r, k0)
        /\ UNCHANGED <<now, map, nextId, evicted>>
        /\ req'[r].holds = None /\ \A q \in Requests : q # r => req'[q] = req[q]
        /\ bucket' = Drawn(id0) /\ passed' = [passed EXCEPT ![k0] = Append(@, now)]
    <2>1. id0 # None
      BY DEF Draw
    <2> QED BY <2>1, DrawEffects DEF Holding
  <1>2. /\ now \in Nat /\ bucket \in [1..nextId -> Nat] /\ bucket[id0] \in Nat
        /\ passed[k0] \in Seq(0..now) /\ passed[k0] \in Seq(Nat)
    BY <1>1, Types
  <1>3. /\ bucket'[id0] = drawn
        /\ \A id \in 1..nextId : id # id0 => bucket'[id] = bucket[id]
    BY <1>1, <1>2 DEF Drawn
  <1>4. /\ passed'[k0] = Append(passed[k0], now)
        /\ \A k \in Keys : k # k0 => passed'[k] = passed[k]
    BY <1>1 DEF TInv, TypeOK
  <1>5. /\ drawn \in Nat /\ bucket[id0] + Period <= drawn /\ now + Period <= drawn
        /\ drawn <= now + Burst * Period
    <2> DEFINE full == Burst * Period
    <2> DEFINE rest == (Burst - 1) * Period
    <2>1. bucket[id0] - now <= rest
      BY DEF HasToken
    <2>2. full \in Nat /\ rest \in Nat /\ rest + Period = full /\ Period \in Nat
      BY Times
    <2> HIDE DEF full, rest
    <2>3. bucket[id0] \in Nat /\ now \in Nat
      BY <1>2
    <2>4. drawn \in Nat /\ bucket[id0] + Period <= drawn /\ now + Period <= drawn
          /\ drawn <= now + full
      BY <2>1, <2>2, <2>3
    <2> HIDE DEF drawn
    <2> QED BY <2>4 DEF full
  <1> HIDE DEF k0, id0, drawn
  <1>6. \A q \in Requests, k \in Keys : Holding(q, k)' => Holding(q, k) /\ req'[q] = req[q]
    BY <1>1 DEF Holding
  <1>7. \A k \in Keys : \A id \in 1..nextId : Claims(id, k)' => Claims(id, k)
    BY <1>1, <1>6 DEF Claims
  <1>8. Distinct'
    BY <1>1, <1>7 DEF GInv, Distinct
  <1>9. Claims(id0, k0)
    BY <1>1 DEF Claims, id0
  <1>10. Fair'
    <2> SUFFICES ASSUME NEW k \in Keys, NEW id \in 1..nextId, Claims(id, k)
                 PROVE  Owed(passed'[k], bucket'[id], now)
      BY <1>1, <1>7 DEF Fair
    <2>1. Owed(passed[k], bucket[id], now) /\ bucket[id] \in Nat
      BY Types DEF GInv, Fair
    <2>2. CASE k = k0 /\ id = id0
      <3>1. Owed(Append(passed[k0], now), drawn, now)
        BY <1>2, <2>1, <2>2, OwedAppend DEF drawn
      <3> QED BY <1>3, <1>4, <2>2, <3>1
    <2>3. CASE k = k0 /\ id # id0
      <3>1. Owed(Append(passed[k0], now), bucket[id], now)
        BY <1>2, <2>1, <2>3, OwedAppend
      <3> QED BY <1>3, <1>4, <2>3, <3>1
    <2>4. CASE k # k0
      <3>1. id # id0
        BY <1>1, <1>9, <2>4 DEF GInv, Distinct
      <3> QED BY <1>3, <1>4, <2>1, <2>4, <3>1
    <2> QED BY <2>2, <2>3, <2>4
  <1>11. Charged'
    <2> SUFFICES ASSUME NEW k \in Keys \ evicted PROVE Allowed(passed'[k]) /\ Kept(k)'
      BY <1>1 DEF Charged
    <2>1. Allowed(passed[k]) /\ Kept(k)
      BY DEF GInv, Charged
    <2>2. CASE k = k0
      <3>1. /\ map[k0] # None /\ id0 = map[k0].bucket /\ req[r].since <= map[k0].seen
            /\ Paid(passed[k0], bucket[id0])
        BY <1>1, <2>1, <2>2 DEF Kept, id0
      <3>2. Paid(passed'[k0], bucket'[id0])
        BY <1>2, <1>3, <1>4, <1>5, <3>1, PaidAppend
      <3>3. Allowed(passed'[k0])
        <4>1. bucket[id0] - now <= (Burst - 1) * Period
          BY DEF HasToken, id0
        <4> QED BY <1>2, <1>4, <2>1, <2>2, <3>1, <4>1, AllowedAppend
      <3>4. bucket'[id0] <= map[k0].seen + MaxStall + Burst * Period
        <4>1. /\ now - req[r].since <= MaxStall /\ req[r].since \in Nat
              /\ map[k0].seen \in Nat
          BY <1>1, <3>1, Types DEF id0
        <4> DEFINE full == Burst * Period
        <4>2. drawn <= now + full /\ drawn \in Nat /\ full \in Nat /\ MaxStall \in Nat
          BY <1>5, Times
        <4> HIDE DEF full
        <4>0. now \in Nat /\ req[r].since <= map[k0].seen
          BY <1>2, <3>1
        <4>3. drawn <= map[k0].seen + MaxStall + full
          BY <4>0, <4>1, <4>2
        <4> QED BY <1>3, <4>3 DEF full
      <3> QED BY <1>1, <1>6, <2>1, <2>2, <3>1, <3>2, <3>3, <3>4 DEF Kept
    <2>3. CASE k # k0
      <3>1. map[k] # None => map[k].bucket \in 1..nextId /\ map[k].bucket # id0
        <4> SUFFICES ASSUME map[k] # None
                     PROVE  map[k].bucket \in 1..nextId /\ map[k].bucket # id0
          OBVIOUS
        <4>1. map[k].bucket \in 1..nextId /\ Claims(map[k].bucket, k)
          BY Types DEF Claims
        <4> QED BY <1>1, <1>9, <2>3, <4>1 DEF GInv, Distinct
      <3>2. passed'[k] = passed[k] /\ (map[k] # None => bucket'[map[k].bucket] = bucket[map[k].bucket])
        BY <1>3, <1>4, <2>3, <3>1
      <3> QED BY <1>1, <1>6, <2>1, <3>2 DEF Kept
    <2> QED BY <2>2, <2>3
  <1> QED BY <1>8, <1>10, <1>11 DEF GInv

\* What GInv asks of the state after a step, given that claims are old ones.
LEMMA GClaims ==
  ASSUME GInv, UNCHANGED <<now, nextId, bucket, passed>>,
         \A k \in Keys : \A id \in 1..nextId : Claims(id, k)' => Claims(id, k)
  PROVE  Distinct' /\ Fair'
  BY DEF GInv, Distinct, Fair

\* A bucket that is in the map is handed to one more thread.
LEMMA GFound ==
  ASSUME TInv, TInv', GInv, NEW r \in Requests, NEW k0 \in Keys, NEW id0 \in Nat,
         Handed(r, k0, id0), map[k0] # None, UNCHANGED <<kind, now, calls, passed>>
  PROVE  GInv'
  <1>1. /\ k0 = Head(req[r].todo) /\ id0 = map[k0].bucket /\ id0 \in 1..nextId
        /\ map' = [map EXCEPT ![k0].seen = now] /\ UNCHANGED <<nextId, bucket, evicted>>
        /\ req' = [req EXCEPT ![r].holds = id0, ![r].since = now]
    BY Types DEF Handed
  <1>2. /\ map'[k0] # None /\ map'[k0].bucket = map[k0].bucket /\ map'[k0].seen = now
        /\ \A k \in Keys : k # k0 => map'[k] = map[k]
    <2>1. map \in [Keys -> [bucket : 1..nextId, seen : 0..now] \cup {None}]
      BY DEF TInv, TypeOK
    <2>2. map[k0] \in [bucket : 1..nextId, seen : 0..now]
      BY <2>1
    <2>3. map'[k0] = [map[k0] EXCEPT !.seen = now]
          /\ \A k \in Keys : k # k0 => map'[k] = map[k]
      BY <1>1, <2>1
    <2>4. map'[k0].bucket = map[k0].bucket /\ map'[k0].seen = now
          /\ map'[k0] \in [bucket : Nat, seen : Nat]
      <3>1. now \in Nat /\ nextId \in Nat
        BY Types
      <3> QED BY <2>2, <2>3, <3>1
    <2> QED BY <2>3, <2>4, NoneAssumption
  <1>3. /\ req'[r].holds = id0 /\ req'[r].since = now /\ req'[r].todo = req[r].todo
        /\ \A q \in Requests : q # r => req'[q] = req[q]
    BY <1>1, LookedUp
  <1>4. \A q \in Requests, k \in Keys :
          Holding(q, k)' => \/ q = r /\ k = k0
                            \/ q # r /\ Holding(q, k) /\ req'[q] = req[q]
    BY <1>1, <1>3 DEF Holding
  <1>5. \A k \in Keys : \A id \in 1..nextId : Claims(id, k)' => Claims(id, k)
    BY <1>1, <1>2, <1>3, <1>4 DEF Claims
  <1>6. Distinct' /\ Fair'
    BY <1>1, <1>5, GClaims
  <1>7. Charged'
    <2> SUFFICES ASSUME NEW k \in Keys \ evicted PROVE Allowed(passed[k]) /\ Kept(k)'
      BY <1>1 DEF Charged
    <2>1. Allowed(passed[k]) /\ Kept(k)
      BY DEF GInv, Charged
    <2>2. CASE k = k0
      <3>1. \A q \in Requests : Holding(q, k0)' => /\ req'[q].holds = map'[k0].bucket
                                                   /\ req'[q].since <= map'[k0].seen
        <4> SUFFICES ASSUME NEW q \in Requests, Holding(q, k0)'
                     PROVE  /\ req'[q].holds = map'[k0].bucket
                            /\ req'[q].since <= map'[k0].seen
          OBVIOUS
        <4>1. now \in Nat
          BY Types
        <4>2. CASE q = r
          <5>1. req'[q].holds = map'[k0].bucket
            BY <1>1, <1>2, <1>3, <4>2
          <5>2. req'[q].since = now /\ map'[k0].seen = now
            BY <1>2, <1>3, <4>2
          <5> QED BY <4>1, <5>1, <5>2
        <4>3. CASE q # r
          <5>1. Holding(q, k0) /\ req'[q] = req[q]
            BY <1>4, <4>3
          <5>2. req[q].holds = map[k0].bucket /\ req[q].since <= now
            BY <2>1, <2>2, <5>1, <4>1, Types DEF Kept
          <5> QED BY <1>2, <5>1, <5>2
        <4> QED BY <4>2, <4>3
      <3>2. bucket[map[k0].bucket] <= now + MaxStall + Burst * Period
        <4> DEFINE full == Burst * Period
        <4>1. bucket[map[k0].bucket] <= map[k0].seen + MaxStall + full
          BY <2>1, <2>2 DEF Kept
        <4>2. full \in Nat /\ MaxStall \in Nat
          BY Times
        <4>3. map[k0].seen \in 0..now /\ now \in Nat /\ bucket[map[k0].bucket] \in Nat
          BY <1>1, Types
        <4> HIDE DEF full
        <4>4. bucket[map[k0].bucket] <= now + MaxStall + full
          BY <4>1, <4>2, <4>3
        <4> QED BY <4>4 DEF full
      <3> QED BY <1>1, <1>2, <2>1, <2>2, <3>1, <3>2 DEF Kept
    <2>3. CASE k # k0
      BY <1>1, <1>2, <1>4, <2>1, <2>3 DEF Kept
    <2> QED BY <2>2, <2>3
  <1> QED BY <1>6, <1>7 DEF GInv

\* A bucket that was idle is full again, and nobody is about to draw on it.
LEMMA PurgedIsFull ==
  ASSUME TInv, NEW k \in Keys, Kept(k), map[k] # None, Idle(k)
  PROVE  Paid(passed[k], now) /\ \A r \in Requests : ~Holding(r, k)
  <1> DEFINE full == Burst * Period
  <1>1. now \in Nat /\ map[k].seen \in 0..now /\ bucket[map[k].bucket] \in Nat
        /\ passed[k] \in Seq(Nat)
    BY Types
  <1>2. full \in Nat /\ full >= 1 /\ MaxStall \in Nat /\ BucketIdleTtl \in Nat
        /\ BucketIdleTtl >= full + MaxStall
    BY Times
  <1>3. bucket[map[k].bucket] <= map[k].seen + MaxStall + full
        /\ Paid(passed[k], bucket[map[k].bucket])
    BY DEF Kept
  <1>4. now - map[k].seen >= BucketIdleTtl
    BY DEF Idle
  <1> HIDE DEF full
  <1>5. bucket[map[k].bucket] <= now
    <2>1. map[k].seen + MaxStall + full <= now
      <3>1. map[k].seen \in Nat /\ now \in Nat
        BY <1>1
      <3> QED BY <1>2, <1>4, <3>1
    <2>2. bucket[map[k].bucket] \in Nat /\ map[k].seen \in Nat
      BY <1>1
    <2> QED BY <1>1, <1>2, <1>3, <2>1, <2>2
  <1>6. Paid(passed[k], now)
    BY <1>1, <1>3, <1>5, Later
  <1>7. ASSUME NEW r \in Requests, Holding(r, k) PROVE FALSE
    <2>1. req[r].since <= map[k].seen /\ now - req[r].since <= MaxStall
          /\ req[r].since \in 0..now
      BY <1>7, Types DEF Kept, Holding
    <2> QED BY <1>1, <1>2, <1>4, <2>1
  <1> QED BY <1>6, <1>7

\* A new bucket is put in the map and handed to a thread.
LEMMA GMade ==
  ASSUME TInv, TInv', GInv, NEW r \in Requests, NEW k0 \in Keys, NEW id0 \in Nat,
         Handed(r, k0, id0), map[k0] = None, UNCHANGED <<kind, now, calls, passed>>
  PROVE  GInv'
  <1>1. PICK gone \in Victims(k0) :
          /\ evicted' = evicted \cup gone
          /\ map' = [x \in Keys |->
               IF x = k0 THEN [bucket |-> nextId + 1, seen |-> now]
               ELSE IF x \in gone \cup (SameMap(k0) \ AfterPurge(k0))
               THEN None ELSE map[x]]
    BY DEF Handed
  <1>2. /\ k0 = Head(req[r].todo) /\ id0 = nextId + 1 /\ nextId' = nextId + 1
        /\ bucket' = Append(bucket, now)
        /\ req' = [req EXCEPT ![r].holds = id0, ![r].since = now]
    BY DEF Handed
  <1>3. now \in Nat /\ nextId \in Nat /\ bucket \in [1..nextId -> Nat]
    BY Types
  <1>4. /\ bucket'[nextId + 1] = now
        /\ \A id \in 1..nextId : bucket'[id] = bucket[id]
    <2>1. bucket \in Seq(Nat) /\ Len(bucket) = nextId
      BY <1>3
    <2> QED BY <1>2, <1>3, <2>1
  <1>5. /\ map'[k0] # None /\ map'[k0].bucket = nextId + 1 /\ map'[k0].seen = now
        /\ \A k \in Keys : k # k0 /\ map'[k] # None => map'[k] = map[k]
        /\ \A k \in Keys : k # k0 /\ map[k] # None /\ map'[k] = None =>
             k \in gone \/ Idle(k)
    <2>1. [bucket |-> nextId + 1, seen |-> now] # None
      BY <1>3, NoneAssumption
    <2>2. \A k \in SameMap(k0) \ AfterPurge(k0) : Idle(k)
      BY DEF AfterPurge
    <2> QED BY <1>1, <2>1, <2>2
  <1>6. /\ req'[r].holds = nextId + 1 /\ req'[r].since = now
        /\ req'[r].todo = req[r].todo
        /\ \A q \in Requests : q # r => req'[q] = req[q]
    BY <1>2, LookedUp
  <1>7. \A q \in Requests, k \in Keys :
          Holding(q, k)' => \/ q = r /\ k = k0
                            \/ q # r /\ Holding(q, k) /\ req'[q] = req[q]
    BY <1>2, <1>6 DEF Holding
  <1>8. \A k \in Keys : \A id \in 1..nextId : Claims(id, k)' => Claims(id, k)
    <2>1. \A id \in 1..nextId : id # nextId + 1
      BY <1>3
    <2> QED BY <1>5, <1>6, <1>7, <2>1 DEF Claims
  <1>9. \A k \in Keys : Claims(id0, k)' => k = k0
    <2> SUFFICES ASSUME NEW k \in Keys, Claims(id0, k)', k # k0 PROVE FALSE
      OBVIOUS
    <2>1. CASE map'[k] # None /\ map'[k].bucket = id0
      <3>1. map[k] # None /\ map[k].bucket = nextId + 1
        BY <1>2, <1>5, <2>1
      <3>2. map[k].bucket \in 1..nextId
        BY <3>1, Types
      <3> QED BY <1>3, <3>1, <3>2
    <2>2. ASSUME NEW q \in Requests, Holding(q, k)', req'[q].holds = id0
          PROVE  FALSE
      <3>1. Holding(q, k) /\ req[q].holds = nextId + 1
        BY <1>2, <1>7, <2>2
      <3>2. req[q].holds \in 1..nextId
        BY <3>1, Types DEF Holding
      <3> QED BY <1>3, <3>1, <3>2
    <2> QED BY <2>1, <2>2 DEF Claims
  <1>10. \A id \in 1..nextId' : id \in 1..nextId \/ id = id0
    <2>1. id0 = nextId + 1 /\ nextId' = nextId + 1 /\ nextId \in Nat
      BY <1>2, <1>3
    <2> QED BY <2>1
  <1>11. Distinct'
    BY <1>8, <1>9, <1>10 DEF GInv, Distinct
  <1>12. Fair'
    <2> SUFFICES ASSUME NEW k \in Keys, NEW id \in 1..nextId', Claims(id, k)'
                 PROVE  Owed(passed[k], bucket'[id], now)
      BY DEF Fair
    <2>1. CASE id \in 1..nextId
      BY <1>4, <1>8, <2>1 DEF GInv, Fair
    <2>2. CASE id = id0
      <3>1. now <= now
        BY <1>3
      <3> QED BY <1>2, <1>4, <2>2, <3>1 DEF Owed
    <2> QED BY <1>10, <2>1, <2>2
  <1>13. Charged'
    <2> SUFFICES ASSUME NEW k \in Keys \ evicted, k \notin gone
                 PROVE  Allowed(passed[k]) /\ Kept(k)'
      BY <1>1 DEF Charged
    <2>1. Allowed(passed[k]) /\ Kept(k)
      BY DEF GInv, Charged
    <2>2. CASE k = k0
      <3>1. Paid(passed[k0], now) /\ \A q \in Requests : ~Holding(q, k0)
        BY <2>1, <2>2 DEF Kept
      <3>2. now <= now + MaxStall + Burst * Period /\ now <= now
        <4> DEFINE full == Burst * Period
        <4>1. full \in Nat /\ MaxStall \in Nat
          BY Times
        <4> HIDE DEF full
        <4>2. now <= now + MaxStall + full /\ now <= now
          BY <1>3, <4>1
        <4> QED BY <4>2 DEF full
      <3>3. \A q \in Requests : Holding(q, k0)' => q = r
        BY <1>7, <3>1
      <3> QED BY <1>4, <1>5, <1>6, <2>1, <2>2, <3>1, <3>2, <3>3 DEF Kept
    <2>3. CASE k # k0 /\ map'[k] # None
      <3>1. map'[k] = map[k] /\ map[k] # None
        BY <1>5, <2>3
      <3>2. bucket'[map[k].bucket] = bucket[map[k].bucket]
        BY <1>4, <3>1, Types
      <3>3. \A q \in Requests : Holding(q, k)' => Holding(q, k) /\ req'[q] = req[q]
        BY <1>7, <2>3
      <3> QED BY <2>1, <2>3, <3>1, <3>2, <3>3 DEF Kept
    <2>4. CASE k # k0 /\ map'[k] = None
      <3>1. Paid(passed[k], now) /\ \A q \in Requests : ~Holding(q, k)
        <4>1. CASE map[k] = None
          BY <2>1, <4>1 DEF Kept
        <4>2. CASE map[k] # None
          BY <1>5, <2>1, <2>4, <4>2, PurgedIsFull
        <4> QED BY <4>1, <4>2
      <3>2. \A q \in Requests : ~Holding(q, k)'
        BY <1>7, <2>4, <3>1
      <3> QED BY <2>1, <2>4, <3>1, <3>2 DEF Kept
    <2> QED BY <2>2, <2>3, <2>4
  <1> QED BY <1>11, <1>12, <1>13 DEF GInv

\* Every step keeps the accounts.
LEMMA GInvStep ==
  ASSUME TInv, TInv', GInv, [Next]_vars
  PROVE  GInv'
  <1>0. \A r \in Requests : req[r].holds # None => req[r].todo # <<>>
    BY DEF TInv, Queue
  <1>n. now \in Nat
    BY Types
  <1>1. ASSUME NEW r \in Requests, NEW b \in Bearers, Check(r, b) PROVE GInv'
    <2> DEFINE q == [NotCalled EXCEPT !.todo = Charges(b)]
    <2>1. q.holds = None
      BY DEF NotCalled
    <2> HIDE DEF q
    <2>2. req' = [req EXCEPT ![r] = q] /\ UNCHANGED <<now, map, nextId, bucket, passed, evicted>>
      BY <1>1 DEF Check, q
    <2>3. \A x \in Requests : req'[x].holds # None => req'[x] = req[x]
      BY <2>1, <2>2 DEF TInv, TypeOK
    <2>4. now <= now'
      BY <1>n, <2>2
    <2> QED BY <2>2, <2>3, <2>4, GIdle
  <1>2. ASSUME NEW r \in Requests, Lookup(r) PROVE GInv'
    <2>1. PICK k \in Keys, id \in Nat : Handed(r, k, id)
      BY <1>2, LookupEffects
    <2>2. UNCHANGED <<kind, now, calls, passed>>
      BY <1>2 DEF Lookup
    <2> QED BY <2>1, <2>2, GFound, GMade
  <1>3. ASSUME NEW r \in Requests, Draw(r) PROVE GInv'
    <2>1. CASE HasToken(req[r].holds)
      BY <1>3, <2>1, GDrawn
    <2>2. CASE ~HasToken(req[r].holds)
      <3>1. /\ UNCHANGED <<now, map, nextId, bucket, passed, evicted>>
            /\ req'[r].holds = None /\ \A x \in Requests : x # r => req'[x] = req[x]
        BY <1>3, <2>2, DrawEffects
      <3>2. now <= now'
        BY <1>n, <3>1
      <3>3. \A x \in Requests : req'[x].holds # None => req'[x] = req[x]
        BY <3>1
      <3> QED BY <3>1, <3>2, <3>3, GIdle
    <2> QED BY <2>1, <2>2
  <1>4. CASE Tick
    <2>1. now' = now + 1 /\ UNCHANGED <<map, nextId, bucket, req, passed, evicted>>
      BY <1>4 DEF Tick
    <2>2. now <= now'
      BY <1>n, <2>1
    <2> QED BY <2>1, <2>2, GIdle
  <1>5. CASE UNCHANGED vars
    <2>1. UNCHANGED <<now, map, nextId, bucket, req, passed, evicted>>
      BY <1>5 DEF vars
    <2>2. now <= now'
      BY <1>n, <2>1
    <2> QED BY <2>1, <2>2, GIdle
  <1> QED BY <1>1, <1>2, <1>3, <1>4, <1>5 DEF Next

\* The accounts are in order in every reachable state.
LEMMA Accounted == Spec => [](TInv /\ GInv)
  <1>1. Init => TInv /\ GInv
    BY TInvInit, GInvInit
  <1>2. TInv /\ GInv /\ [Next]_vars => (TInv /\ GInv)'
    BY TInvStep, GInvStep
  <1> QED BY <1>1, <1>2, PTL DEF Spec

\* The quota: whatever the interleaving of lookups, draws and purges, nobody
\* gets through more often than a full bucket and its refill allow, unless
\* the bucket was evicted while in use.
THEOREM QuotaIsKept == Spec => []WithinQuota
  <1>1. GInv => WithinQuota
    BY DEF GInv, Charged, WithinQuota
  <1> QED BY <1>1, Accounted, PTL

\* check() never refuses a request the quota has room for, however many
\* buckets its identities have had.
THEOREM RefusalsAreJustified == Spec => RefusalsJustified
  <1> DEFINE Just == \A r \in Requests :
        req[r].holds # None /\ req'[r].outcome = "limited"
          => ~Allowed(Append(passed[Head(req[r].todo)], now))
  <1>1. ASSUME TInv, GInv, [Next]_vars PROVE Just
    <2> SUFFICES ASSUME NEW r \in Requests, req[r].holds # None,
                        req'[r].outcome = "limited"
                 PROVE  ~Allowed(Append(passed[Head(req[r].todo)], now))
      OBVIOUS
    <2> DEFINE k == Head(req[r].todo)
    <2> DEFINE id == req[r].holds
    <2>0. req[r].outcome = None /\ req[r].todo # <<>>
      BY <1>1 DEF TInv, Queue
    <2>n. None # "limited"
      BY NoneAssumption
    <2>1. CASE Draw(r)
      <3>1. /\ id \in 1..nextId /\ k \in Keys /\ ~HasToken(id)
        <4>1. ASSUME HasToken(req[r].holds) PROVE FALSE
          <5>1. req'[r] = [todo |-> Tail(req[r].todo), holds |-> None, since |-> 0,
                           drew |-> req[r].drew + 1,
                           outcome |-> IF Tail(req[r].todo) = <<>> THEN "ok" ELSE None]
            BY <1>1, <2>1, <4>1, DrawEffects
          <5>2. req'[r].outcome \in {"ok", None}
            BY <5>1
          <5> QED BY <2>n, <5>2
        <4> QED BY <1>1, <2>1, <4>1, DrawEffects
      <3>2. Claims(id, k)
        BY DEF Claims, Holding
      <3>3. Owed(passed[k], bucket[id], now)
        BY <1>1, <3>1, <3>2 DEF GInv, Fair
      <3>4. /\ now \in Nat /\ passed[k] \in Seq(0..now) /\ bucket[id] \in Nat
        BY <1>1, <3>1, Types
      <3>5. bucket[id] - now > (Burst - 1) * Period
        <4> DEFINE rest == (Burst - 1) * Period
        <4>1. ~(bucket[id] - now <= rest)
          BY <3>1 DEF HasToken
        <4>2. rest \in Nat
          BY Times
        <4> HIDE DEF rest
        <4>3. bucket[id] - now > rest
          BY <3>4, <4>1, <4>2
        <4> QED BY <4>3 DEF rest
      <3> QED BY <3>3, <3>4, <3>5, RefusedAppend
    <2>2. CASE ~Draw(r)
      <3>1. req'[r] = req[r]
        <4>1. ASSUME NEW q \in Requests, NEW b \in Bearers, Check(q, b) PROVE req'[r] = req[r]
          <5>1. q # r
            BY <2>0, <4>1 DEF Check
          <5> QED BY <1>1, <4>1, <5>1 DEF Check, TInv, TypeOK
        <4>2. ASSUME NEW q \in Requests, Lookup(q) PROVE req'[r] = req[r]
          <5>1. q # r
            BY <4>2 DEF Lookup
          <5>2. PICK j \in Keys, i \in Nat : Handed(q, j, i)
            BY <1>1, <4>2, LookupEffects
          <5> QED BY <1>1, <5>1, <5>2, LookedUp DEF Handed
        <4>3. ASSUME NEW q \in Requests, Draw(q) PROVE req'[r] = req[r]
          BY <1>1, <2>2, <4>3, DrawEffects
        <4>4. CASE Tick \/ UNCHANGED vars
          BY <4>4 DEF Tick, vars
        <4> QED BY <1>1, <4>1, <4>2, <4>3, <4>4 DEF Next
      <3> QED BY <2>0, <2>n, <3>1
    <2> QED BY <2>1, <2>2
  <1>2. TInv /\ GInv /\ [Next]_vars => [Just]_vars
    BY <1>1
  <1>3. Spec => [][Just]_vars
    BY <1>2, Accounted, PTL DEF Spec
  <1> QED BY <1>3 DEF RefusalsJustified
=============================================================================
