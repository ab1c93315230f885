--------------------------- MODULE OAuthProxyProofs --------------------------
(***************************************************************************)
(* A code reaches the client that asked, once, and sign-ins under way are  *)
(* neither evicted nor shut out, for any number of flows and states and    *)
(* any cap and TTL.  What is remembered under a state, and what a client   *)
(* holds, is tied to the flow the state was drawn for (Remembered); that   *)
(* lasts because a state is never drawn twice.                             *)
(***************************************************************************)
EXTENDS OAuthProxy, FiniteSetTheorems, TLAPS

\* A pending state was drawn for its flow, a registered one, and has led to
\* no redirect; only drawn states come back from Logto, or are codes.
Remembered ==
  /\ \A s \in States :
       /\ pending[s] # None => /\ s \in drawn /\ redirects[s] = 0
                               /\ owner[s] = pending[s].flow
                               /\ pending[s].flow \in Registered
       /\ s \notin drawn => redirects[s] = 0
       /\ returned[s] # None => s \in drawn
  /\ \A f \in Flows : code[f] # None => code[f] \in drawn

IInv == TypeOK /\ Remembered /\ RightClient /\ RedirectedOnce /\ PendingBounded

\* Nothing is pending, drawn or held at the start.
LEMMA IInvInit == Init => IInv
  <1> SUFFICES ASSUME Init PROVE IInv
    OBVIOUS
  <1>1. Pending = {}
    BY DEF Init, Pending
  <1>2. PendingBounded
    BY <1>1, FS_EmptySet, OAuthAssumption DEF PendingBounded
  <1>3. TypeOK /\ Remembered /\ RightClient /\ RedirectedOnce
    BY OAuthAssumption
    DEF Init, TypeOK, Client, Remembered, RightClient, RedirectedOnce
  <1> QED BY <1>2, <1>3 DEF IInv

\* A map that lost entries, or kept them all, is within the cap.
LEMMA FewerArePending ==
  ASSUME PendingBounded, Pending' \subseteq Pending
  PROVE  PendingBounded'
  <1>1. IsFiniteSet(Pending)
    BY OAuthAssumption, FS_Subset DEF Pending
  <1>2. Cardinality(Pending') <= Cardinality(Pending) /\ Cardinality(Pending) \in Nat
        /\ Cardinality(Pending') \in Nat
    BY <1>1, FS_Subset, FS_CardinalityType
  <1> QED BY <1>2, OAuthAssumption DEF PendingBounded

\* insert adds one entry where the sweep left room.
LEMMA RoomIsKept ==
  ASSUME PendingBounded, Room, NEW s, Pending' \subseteq AfterSweep \cup {s}
  PROVE  PendingBounded'
  <1>1. IsFiniteSet(AfterSweep) /\ IsFiniteSet(AfterSweep \cup {s})
    BY OAuthAssumption, FS_Subset, FS_AddElement DEF AfterSweep, Pending
  <1>2. /\ Cardinality(AfterSweep \cup {s}) <= Cardinality(AfterSweep) + 1
        /\ Cardinality(Pending') <= Cardinality(AfterSweep \cup {s})
        /\ Cardinality(AfterSweep) \in Nat /\ Cardinality(Pending') \in Nat
        /\ Cardinality(AfterSweep \cup {s}) \in Nat
    <2>1. Cardinality(AfterSweep \cup {s}) <= Cardinality(AfterSweep) + 1
          /\ Cardinality(AfterSweep) \in Nat
      BY <1>1, FS_AddElement, FS_CardinalityType
    <2>2. Cardinality(Pending') <= Cardinality(AfterSweep \cup {s}) /\ IsFiniteSet(Pending')
      BY <1>1, FS_Subset
    <2>3. Cardinality(Pending') \in Nat /\ Cardinality(AfterSweep \cup {s}) \in Nat
      BY <1>1, <2>2, FS_CardinalityType
    <2> QED BY <2>1, <2>2, <2>3
  <1> QED BY <1>2, OAuthAssumption DEF PendingBounded, Room

\* /authorize of a registered flow that finds room.
LEMMA AuthorizeKeeps ==
  ASSUME IInv, NEW f \in Registered, Authorize(f)
  PROVE  IInv'
  <1>1. f \in Flows
    BY OAuthAssumption
  <1>2. PICK s \in FreshStates :
          /\ pending' = [x \in States |->
               IF Room /\ x = s THEN Entry(f)
               ELSE IF x \in AfterSweep THEN pending[x] ELSE None]
          /\ Sees(f, IF Room THEN "login" ELSE "503")
          /\ drawn' = IF Room THEN drawn \cup {s} ELSE drawn
          /\ owner' = IF Room THEN [owner EXCEPT ![s] = f] ELSE owner
    BY DEF Authorize
  <1>3. s \in States /\ s \notin drawn
    BY <1>2 DEF FreshStates
  <1>4. UNCHANGED <<now, returned, spent, code, renewable, redirects>>
    BY DEF Authorize
  <1>5. now \in Nat /\ Entry(f) = [flow |-> f, created |-> now]
    BY DEF IInv, TypeOK, Entry
  <1>6. CASE Room
    <2>1. /\ pending' = [x \in States |-> IF x = s THEN Entry(f)
                                          ELSE IF x \in AfterSweep THEN pending[x] ELSE None]
          /\ client' = [client EXCEPT ![f] = "login"]
          /\ drawn' = drawn \cup {s} /\ owner' = [owner EXCEPT ![s] = f]
      BY <1>2, <1>6 DEF Sees
    <2>2. TypeOK'
      BY <1>1, <1>3, <1>4, <1>5, <2>1 DEF IInv, TypeOK, Client
    <2>3. Remembered'
      BY <1>1, <1>3, <1>4, <1>5, <2>1 DEF IInv, TypeOK, Remembered
    <2>4. RightClient'
      BY <1>3, <1>4, <2>1 DEF IInv, TypeOK, Remembered, RightClient
    <2>5. PendingBounded'
      <3>1. Pending' \subseteq AfterSweep \cup {s}
        BY <2>1 DEF Pending
      <3> QED BY <1>6, <3>1, RoomIsKept DEF IInv
    <2>6. RedirectedOnce'
      BY <1>4 DEF IInv, RedirectedOnce
    <2> QED BY <2>2, <2>3, <2>4, <2>5, <2>6 DEF IInv
  <1>7. CASE ~Room
    <2>1. /\ pending' = [x \in States |-> IF x \in AfterSweep THEN pending[x] ELSE None]
          /\ client' = [client EXCEPT ![f] = "503"]
          /\ UNCHANGED <<drawn, owner>>
      BY <1>2, <1>7 DEF Sees
    <2>2. TypeOK'
      BY <1>1, <1>4, <2>1 DEF IInv, TypeOK, Client
    <2>3. Remembered' /\ RightClient' /\ RedirectedOnce'
      BY <1>1, <1>4, <2>1 DEF IInv, TypeOK, Remembered, RightClient, RedirectedOnce
    <2>4. PendingBounded'
      <3>1. Pending' \subseteq Pending
        BY <2>1 DEF Pending
      <3> QED BY <3>1, FewerArePending DEF IInv
    <2> QED BY <2>2, <2>3, <2>4 DEF IInv
  <1> QED BY <1>6, <1>7

\* Every step keeps IInv.
LEMMA IInvStep == IInv /\ [Next]_vars => IInv'
  <1> SUFFICES ASSUME IInv, [Next]_vars PROVE IInv'
    OBVIOUS
  <1>1. ASSUME NEW f \in Flows, Authorize(f) PROVE IInv'
    <2>1. CASE f \in Registered
      BY <1>1, <2>1, AuthorizeKeeps
    <2>2. CASE f \notin Registered
      <3>1. /\ client' = [client EXCEPT ![f] = "400"]
            /\ UNCHANGED <<now, pending, drawn, returned, spent, code, renewable, owner, redirects>>
        BY <1>1, <2>2 DEF Authorize, Sees
      <3>2. TypeOK' /\ Remembered' /\ RightClient' /\ RedirectedOnce'
        BY <3>1 DEF IInv, TypeOK, Client, Remembered, RightClient, RedirectedOnce
      <3>3. PendingBounded'
        BY <3>1, FewerArePending DEF IInv, Pending
      <3> QED BY <3>2, <3>3 DEF IInv
    <2> QED BY <2>1, <2>2
  <1>2. ASSUME NEW f \in Flows, NEW grant \in Grants, NEW uri \in Uris, Token(f, grant, uri)
        PROVE  IInv'
    <2>1. UNCHANGED <<now, pending, drawn, returned, code, owner, redirects>>
      BY <1>2 DEF Token
    <2>2. PICK x \in {"400", "502", "denied", "tokens", "empty"} :
            client' = [client EXCEPT ![f] = x]
      BY <1>2 DEF Token, Sees
    <2>3. spent' \subseteq drawn
      BY <1>2 DEF Token, Holds, IInv, TypeOK, Remembered
    <2>4. renewable' \subseteq Flows
      BY <1>2 DEF Token, IInv, TypeOK
    <2>5. TypeOK'
      BY <2>1, <2>2, <2>3, <2>4 DEF IInv, TypeOK, Client
    <2>6. Remembered' /\ RightClient' /\ RedirectedOnce'
      BY <2>1 DEF IInv, TypeOK, Remembered, RightClient, RedirectedOnce
    <2>7. PendingBounded'
      BY <2>1, FewerArePending DEF IInv, Pending
    <2> QED BY <2>5, <2>6, <2>7 DEF IInv
  <1>3. ASSUME NEW s \in States, Callback(s) PROVE IInv'
    <2>1. /\ pending' = [pending EXCEPT ![s] = None] /\ returned[s] # None
          /\ UNCHANGED <<now, drawn, returned, spent, renewable, owner>>
      BY <1>3 DEF Callback, Taken
    <2>2. PendingBounded'
      <3>1. Pending' \subseteq Pending
        BY <2>1 DEF Pending, IInv, TypeOK
      <3> QED BY <3>1, FewerArePending DEF IInv
    <2>3. CASE ~Takes(s)
      <3>1. UNCHANGED <<client, code, redirects>>
        BY <1>3, <2>3 DEF Callback
      <3>2. TypeOK' /\ Remembered' /\ RightClient' /\ RedirectedOnce'
        BY <2>1, <3>1 DEF IInv, TypeOK, Remembered, RightClient, RedirectedOnce
      <3> QED BY <2>2, <3>2 DEF IInv
    <2>4. CASE Takes(s)
      <3> DEFINE f == pending[s].flow
      <3>1. f \in Registered /\ f \in Flows /\ owner[s] = f /\ s \in drawn
            /\ redirects[s] = 0
        BY <2>4, OAuthAssumption DEF Takes, IInv, Remembered
      <3>2. redirects' = [redirects EXCEPT ![s] = IF @ < 2 THEN @ + 1 ELSE @]
        BY <1>3, <2>4 DEF Callback
      <3>3. redirects' \in [States -> 0..2] /\ redirects'[s] = 1
            /\ \A x \in States : x # s => redirects'[x] = redirects[x]
        BY <3>1, <3>2 DEF IInv, TypeOK
      <3>4. \/ client' = [client EXCEPT ![f] = "code"] /\ code' = [code EXCEPT ![f] = s]
            \/ client' = [client EXCEPT ![f] = "denied"] /\ code' = code
        BY <1>3, <2>4 DEF Callback, Sees
      <3> HIDE DEF f
      <3>5. TypeOK'
        <4>1. f \in Flows /\ s \in States
          BY <3>1
        <4>2. client' \in [Flows -> Client]
          <5>1. client \in [Flows -> Client] /\ {"code", "denied"} \subseteq Client
            BY DEF IInv, TypeOK, Client
          <5> QED BY <3>4, <4>1, <5>1
        <4>3. code' \in [Flows -> States \cup {None}]
          BY <3>4, <4>1 DEF IInv, TypeOK
        <4>4. pending' \in [States -> [flow : Flows, created : 0..now] \cup {None}]
          BY <2>1 DEF IInv, TypeOK
        <4> QED BY <2>1, <3>3, <4>2, <4>3, <4>4 DEF IInv, TypeOK
      <3>6. \A x \in States : /\ pending'[x] # None => x # s /\ pending[x] # None
                              /\ pending'[x] # None => pending'[x] = pending[x]
        BY <2>1 DEF IInv, TypeOK
      <3>7. Remembered'
        <4>1. ASSUME NEW x \in States
              PROVE  /\ pending'[x] # None => /\ x \in drawn' /\ redirects'[x] = 0
                                              /\ owner'[x] = pending'[x].flow
                                              /\ pending'[x].flow \in Registered
                     /\ x \notin drawn' => redirects'[x] = 0
                     /\ returned'[x] # None => x \in drawn'
          BY <2>1, <3>1, <3>3, <3>6 DEF IInv, Remembered
        <4>2. ASSUME NEW g \in Flows
              PROVE  code'[g] # None => code'[g] \in drawn'
          BY <2>1, <3>1, <3>4, OAuthAssumption DEF IInv, TypeOK, Remembered
        <4> QED BY <4>1, <4>2 DEF Remembered
      <3>8. RightClient'
        BY <2>1, <3>1, <3>4 DEF IInv, TypeOK, RightClient
      <3>9. RedirectedOnce'
        BY <3>3 DEF IInv, RedirectedOnce
      <3> QED BY <2>2, <3>5, <3>7, <3>8, <3>9 DEF IInv
    <2> QED BY <2>3, <2>4
  <1>4. ASSUME NEW s \in States, NEW x \in {"code", "error"}, LogtoReturns(s, x)
        PROVE  IInv'
    <2>1. TypeOK' /\ Remembered' /\ RightClient' /\ RedirectedOnce'
      BY <1>4 DEF LogtoReturns, IInv, TypeOK, Remembered, RightClient, RedirectedOnce
    <2>2. PendingBounded'
      BY <1>4, FewerArePending DEF LogtoReturns, IInv, Pending
    <2> QED BY <2>1, <2>2 DEF IInv
  <1>5. CASE Tick
    <2>1. now' = now + 1
          /\ UNCHANGED <<pending, drawn, returned, spent, client, code, renewable, owner, redirects>>
      BY <1>5 DEF Tick
    <2>2. 0..now \subseteq 0..now' /\ now' \in Nat
      BY <2>1 DEF IInv, TypeOK
    <2>3. pending' \in [States -> [flow : Flows, created : 0..now'] \cup {None}]
      BY <2>1, <2>2 DEF IInv, TypeOK
    <2>4. TypeOK' /\ Remembered' /\ RightClient' /\ RedirectedOnce'
      BY <2>1, <2>2, <2>3 DEF IInv, TypeOK, Remembered, RightClient, RedirectedOnce
    <2>5. PendingBounded'
      BY <2>1, FewerArePending DEF IInv, Pending
    <2> QED BY <2>4, <2>5 DEF IInv
  <1>6. CASE UNCHANGED vars
    BY <1>6 DEF vars, IInv, TypeOK, Remembered, RightClient, RedirectedOnce,
                PendingBounded, Pending
  <1> QED BY <1>1, <1>2, <1>3, <1>4, <1>5, <1>6 DEF Next

\* IInv is an invariant.
LEMMA Invariance == Spec => []IInv
  BY IInvInit, IInvStep, PTL DEF Spec

\* The variables keep their types.
THEOREM TypeCorrect == Spec => []TypeOK
  <1>1. IInv => TypeOK
    BY DEF IInv
  <1> QED BY <1>1, Invariance, PTL

\* A code goes to the client that asked for it, a registered one.
THEOREM CodesGoHome == Spec => []RightClient
  <1>1. IInv => RightClient
    BY DEF IInv
  <1> QED BY <1>1, Invariance, PTL

\* A state is good for one redirect.
THEOREM StatesAreSpentOnce == Spec => []RedirectedOnce
  <1>1. IInv => RedirectedOnce
    BY DEF IInv
  <1> QED BY <1>1, Invariance, PTL

\* PENDING_CAP bounds the map.
THEOREM PendingIsBounded == Spec => []PendingBounded
  <1>1. IInv => PendingBounded
    BY DEF IInv
  <1> QED BY <1>1, Invariance, PTL
-----------------------------------------------------------------------------
\* /authorize takes no unexpired entry away; any other step leaves the
\* entries alone but the callback's own.
LEMMA StepEvictsNone ==
  ASSUME IInv, [Next]_vars, NEW s \in States,
         pending[s] # None, Unexpired(s), pending'[s] = None
  PROVE  redirects'[s] = redirects[s] + 1
  <1>1. ASSUME NEW f \in Flows, Authorize(f) PROVE FALSE
    <2>1. f \in Registered
      BY <1>1 DEF Authorize
    <2>2. PICK t \in FreshStates :
            pending' = [x \in States |-> IF Room /\ x = t THEN Entry(f)
                                         ELSE IF x \in AfterSweep THEN pending[x] ELSE None]
      BY <1>1, <2>1 DEF Authorize
    <2>3. s # t
      BY <2>2 DEF IInv, Remembered, FreshStates
    <2>4. s \in AfterSweep
      BY DEF AfterSweep, Pending
    <2> QED BY <2>2, <2>3, <2>4
  <1>2. ASSUME NEW x \in States, Callback(x) PROVE redirects'[s] = redirects[s] + 1
    <2>1. x = s
      BY <1>2 DEF Callback, Taken, IInv, TypeOK
    <2>2. redirects' = [redirects EXCEPT ![s] = IF @ < 2 THEN @ + 1 ELSE @]
      BY <1>2, <2>1 DEF Callback, Takes
    <2>3. redirects[s] = 0
      BY DEF IInv, Remembered
    <2> QED BY <2>2, <2>3 DEF IInv, TypeOK
  <1>3. pending' # pending
    OBVIOUS
  <1> QED BY <1>1, <1>2, <1>3 DEF Next, Token, LogtoReturns, Tick, vars

\* A sign-in under way is never sacrificed to make room for another.
THEOREM NoSignInIsEvicted == Spec => SignInsNotEvicted
  <1>1. IInv /\ [Next]_vars =>
          [ \A s \in States :
              pending[s] # None /\ Unexpired(s) /\ pending'[s] = None
                => redirects'[s] = redirects[s] + 1 ]_vars
    BY StepEvictsNone
  <1> QED BY <1>1, Invariance, PTL DEF Spec, SignInsNotEvicted

\* "too many pending authorizations" is said only when PENDING_CAP sign-ins
\* are under way.
THEOREM BusyIsTrue == Spec => BusyOnlyWhenFull
  <1>1. IInv /\ [Next]_vars =>
          [ \A f \in Flows :
              client[f] # "503" /\ client'[f] = "503"
                => Cardinality({s \in Pending : Unexpired(s)}) >= PendingCap ]_vars
    <2> SUFFICES ASSUME IInv, [Next]_vars, NEW f \in Flows,
                        client[f] # "503", client'[f] = "503"
                 PROVE  Cardinality({s \in Pending : Unexpired(s)}) >= PendingCap
      OBVIOUS
    <2> DEFINE live == {s \in Pending : Unexpired(s)}
    <2>1. PICK g \in Flows : Authorize(g)
      <3>1. ASSUME NEW g \in Flows, NEW grant \in Grants, NEW uri \in Uris, Token(g, grant, uri)
            PROVE  FALSE
        BY <3>1 DEF Token, Sees, IInv, TypeOK
      <3>2. ASSUME NEW s \in States, Callback(s) PROVE FALSE
        BY <3>2 DEF Callback, Sees, IInv, TypeOK
      <3> QED BY <3>1, <3>2 DEF Next, LogtoReturns, Tick, vars
    <2>2. ~Room
      BY <2>1 DEF Authorize, Sees, IInv, TypeOK
    <2>3. /\ IsFiniteSet(Pending) /\ AfterSweep \subseteq Pending
          /\ Cardinality(AfterSweep) <= Cardinality(Pending)
          /\ Cardinality(Pending) \in Nat /\ Cardinality(AfterSweep) \in Nat
      <3>1. IsFiniteSet(Pending) /\ AfterSweep \subseteq Pending
        BY OAuthAssumption, FS_Subset DEF Pending, AfterSweep
      <3> QED BY <3>1, FS_Subset, FS_CardinalityType
    <2>4. Cardinality(Pending) >= PendingCap
      BY <2>2, <2>3, OAuthAssumption DEF Room
    <2>5. AfterSweep = live
      BY <2>4 DEF AfterSweep
    <2> QED BY <2>2, <2>3, <2>5, OAuthAssumption DEF Room
  <1> QED BY <1>1, Invariance, PTL DEF Spec, BusyOnlyWhenFull
=============================================================================
