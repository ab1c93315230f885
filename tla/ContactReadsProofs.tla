-------------------------- MODULE ContactReadsProofs -------------------------
(***************************************************************************)
(* The reading tools, for any number of calls, books, contacts and         *)
(* changes: the bearer stays on the origin, the discovery cache is bounded *)
(* and lags the server for a bounded time, and an answer is complete or an *)
(* error.  A call's locals are well formed (WellFormed) and name trusted   *)
(* hrefs only (OnOrigin), whether they were discovered or cached; what was *)
(* answered or cached before a move is at most an exchange older (Lag);    *)
(* and a contact there all along has been found, or lies in a book still   *)
(* to be asked (Pursued).                                                  *)
(***************************************************************************)
EXTENDS ContactReads, FiniteSetTheorems, TLAPS

Locals == [pc : PC, arg : Args \cup {None}, principal : Principals \cup {None},
           home : Homes \cup {None}, todo : SUBSET Books, found : SUBSET Contacts]

Searching == Asking \cup {"discovered", "ok"}

WellFormed(l) ==
  /\ l.pc \in Searching \cup {"evict"} => l.arg \in Args
  /\ l.pc = "idle" => l.home = None
  /\ l.pc \in {"principal", "home", "discovered", "list"} => l.arg.book = None
  /\ l.pc = "discovered" => l.home \in Homes

OnOrigin(l) ==
  /\ l.pc = "home" => l.principal \in Trusted
  /\ l.pc \in {"discovered", "list"} => l.home \in Trusted
  /\ l.todo \subseteq Trusted

Shape ==
  /\ TypeOK
  /\ \A c \in Calls : WellFormed(call[c]) /\ OnOrigin(call[c])
  /\ \A t \in Tokens : discoveries[t] # None => discoveries[t].home \in Trusted

IInv == Shape /\ DiscoveriesBounded

\* The locals of a call after a step of its own.
LEMMA Becoming ==
  ASSUME Shape, NEW c \in Calls, NEW l \in Locals, Become(c, l),
         WellFormed(l), OnOrigin(l)
  PROVE  /\ call' \in [Calls -> Locals]
         /\ call'[c] = l /\ \A d \in Calls : d # c => call'[d] = call[d]
         /\ \A d \in Calls : WellFormed(call'[d]) /\ OnOrigin(call'[d])
  <1>1. call \in [Calls -> Locals]
    BY DEF Shape, TypeOK, Locals
  <1>2. /\ call' \in [Calls -> Locals]
        /\ call'[c] = l /\ \A d \in Calls : d # c => call'[d] = call[d]
    BY <1>1 DEF Become
  <1> QED BY <1>2 DEF Shape

\* What a token's account names.
LEMMA Account ==
  ASSUME TypeOK, NEW t \in Tokens
  PROVE  account[t].principal \in Principals /\ account[t].home \in Homes
  BY DEF TypeOK, Principals, Homes

\* A call that is given up, or has not begun, knows nothing.
LEMMA FailKeeps ==
  ASSUME NEW x \in Results \cup {"idle"}, x # "ok"
  PROVE  LET l == [Idle EXCEPT !.pc = x]
         IN  l \in Locals /\ WellFormed(l) /\ OnOrigin(l)
  BY DEF Idle, Locals, PC, Results, Asking, Searching, WellFormed, OnOrigin

\* The steps of a call keep its locals well formed and on the origin.
LEMMA CallStep ==
  ASSUME Shape, NEW c \in Calls,
         \/ \E a \in Queries : Call(c, a)
         \/ Reject(c)
         \/ FindPrincipal(c) \/ FindHome(c) \/ Discover(c) \/ ListBooks(c)
         \/ \E b \in Books : Report(c, b)
         \/ ExchangeFails(c) \/ Refused(c) \/ React(c)
  PROVE  \E l \in Locals : Become(c, l) /\ WellFormed(l) /\ OnOrigin(l)
  <1> DEFINE Good(l) == l \in Locals /\ WellFormed(l) /\ OnOrigin(l)
  <1>0. call[c] \in Locals /\ WellFormed(call[c]) /\ OnOrigin(call[c]) /\ TypeOK
    BY DEF Shape, TypeOK, Locals
  <1>f. ASSUME NEW x \in Results \cup {"idle"}, x # "ok", Fail(c, x)
        PROVE  \E l \in Locals : Become(c, l) /\ WellFormed(l) /\ OnOrigin(l)
    BY <1>f, FailKeeps DEF Fail
  <1>1. ASSUME NEW a \in Queries, Call(c, a)
        PROVE  \E l \in Locals : Become(c, l) /\ WellFormed(l) /\ OnOrigin(l)
    <2>1. a \in Args /\ a.token \in Tokens /\ a.book \in Books \cup {None}
      BY ReadsAssumption DEF Args
    <2> DEFINE asked == [Idle EXCEPT !.arg = a]
    <2>2. CASE a.book # None /\ Resolves(a.book)
                 /\ Become(c, [asked EXCEPT !.pc = "report", !.todo = {a.book}])
      <3>1. Good([asked EXCEPT !.pc = "report", !.todo = {a.book}])
        BY <2>1, <2>2
        DEF Idle, Locals, PC, Asking, Searching, Results, WellFormed, OnOrigin, Resolves
      <3> QED BY <2>2, <3>1
    <2>3. CASE a.book = None /\ CacheHit(a.token)
                 /\ Become(c, [asked EXCEPT !.pc = AfterDiscovery(a),
                                            !.home = discoveries[a.token].home])
      <3>1. discoveries[a.token].home \in Trusted /\ discoveries[a.token].home \in Homes
        BY <2>1, <2>3 DEF Shape, TypeOK, CacheHit
      <3>2. AfterDiscovery(a) \in {"ok", "list"}
        BY DEF AfterDiscovery
      <3>3. Good([asked EXCEPT !.pc = AfterDiscovery(a), !.home = discoveries[a.token].home])
        BY <2>1, <2>3, <3>1, <3>2
        DEF Idle, Locals, PC, Asking, Searching, Results, WellFormed, OnOrigin
      <3> QED BY <2>3, <3>3
    <2>4. CASE a.book = None /\ Become(c, [asked EXCEPT !.pc = "principal"])
      <3>1. Good([asked EXCEPT !.pc = "principal"])
        BY <2>1, <2>4 DEF Idle, Locals, PC, Asking, Searching, Results, WellFormed, OnOrigin
      <3> QED BY <2>4, <3>1
    <2>5. CASE Fail(c, "invalid")
      BY <1>f, <2>5 DEF Results
    <2> QED BY <1>1, <2>2, <2>3, <2>4, <2>5 DEF Call
  <1>2. CASE Reject(c)
    BY <1>f, <1>2 DEF Reject, Results
  <1>3. CASE FindPrincipal(c)
    <2> DEFINE p == account[call[c].arg.token].principal
    <2>1. call[c].arg \in Args /\ call[c].arg.book = None /\ p \in Principals
      BY <1>0, <1>3, Account DEF FindPrincipal, WellFormed, Searching, Asking, Args
    <2>2. CASE Resolves(p)
                 /\ Become(c, [call[c] EXCEPT !.pc = "home", !.principal = p])
      <3> HIDE DEF p
      <3>1. Good([call[c] EXCEPT !.pc = "home", !.principal = p])
        BY <1>0, <2>1, <2>2
        DEF Locals, PC, Asking, Searching, WellFormed, OnOrigin, Resolves
      <3> QED BY <2>2, <3>1
    <2> QED BY <1>f, <1>3, <2>2 DEF FindPrincipal, Results
  <1>4. CASE FindHome(c)
    <2> DEFINE h == account[call[c].arg.token].home
    <2>1. call[c].arg \in Args /\ call[c].arg.book = None /\ h \in Homes
      BY <1>0, <1>4, Account DEF FindHome, WellFormed, Searching, Asking, Args
    <2>2. CASE Resolves(h)
                 /\ Become(c, [call[c] EXCEPT !.pc = "discovered",
                                              !.principal = None, !.home = h])
      <3> HIDE DEF h
      <3>1. Good([call[c] EXCEPT !.pc = "discovered", !.principal = None, !.home = h])
        BY <1>0, <2>1, <2>2
        DEF Locals, PC, Asking, Searching, WellFormed, OnOrigin, Resolves
      <3> QED BY <2>2, <3>1
    <2> QED BY <1>f, <1>4, <2>2 DEF FindHome, Results
  <1>5. CASE Discover(c)
    <2>1. call[c].arg \in Args /\ call[c].arg.book = None /\ call[c].home \in Trusted
      BY <1>0, <1>5 DEF Discover, WellFormed, Searching, OnOrigin
    <2>2. AfterDiscovery(call[c].arg) \in {"ok", "list"}
      BY DEF AfterDiscovery
    <2>3. Good([call[c] EXCEPT !.pc = AfterDiscovery(call[c].arg)])
      BY <1>0, <2>1, <2>2 DEF Locals, PC, Asking, Searching, Results, WellFormed, OnOrigin
    <2> QED BY <1>5, <2>3 DEF Discover
  <1>6. CASE ListBooks(c)
    <2>1. call[c].arg \in Args /\ books \subseteq Books
      BY <1>0, <1>6 DEF ListBooks, WellFormed, Searching, Asking, TypeOK
    <2>2. ASSUME NEW listed \in SUBSET books, \A b \in listed : Resolves(b),
                 LET ends == call[c].arg.tool = "list_address_books" \/ listed = {}
                 IN  Become(c, [call[c] EXCEPT !.pc = IF ends THEN "ok" ELSE "report",
                                               !.todo = IF ends THEN {} ELSE listed])
          PROVE  \E l \in Locals : Become(c, l) /\ WellFormed(l) /\ OnOrigin(l)
      <3> DEFINE ends == call[c].arg.tool = "list_address_books" \/ listed = {}
      <3> DEFINE new == [call[c] EXCEPT !.pc = IF ends THEN "ok" ELSE "report",
                                        !.todo = IF ends THEN {} ELSE listed]
      <3>1. listed \subseteq Trusted
        BY <2>2 DEF Resolves
      <3>2. Good(new)
        BY <1>0, <2>1, <3>1
        DEF Locals, PC, Asking, Searching, Results, WellFormed, OnOrigin
      <3> QED BY <2>2, <3>2
    <2>3. CASE Fail(c, "invalid")
      BY <1>f, <2>3 DEF Results
    <2> QED BY <1>6, <2>2, <2>3 DEF ListBooks
  <1>7. ASSUME NEW b \in Books, Report(c, b)
        PROVE  \E l \in Locals : Become(c, l) /\ WellFormed(l) /\ OnOrigin(l)
    <2> DEFINE a == call[c].arg
    <2> DEFINE rest == call[c].todo \ {b}
    <2> DEFINE there == {k \in contacts : BookOf[k] = b}
    <2>1. a \in Args /\ rest \subseteq Books /\ rest \subseteq Trusted
          /\ call[c].found \cup there \subseteq Contacts
      BY <1>0, <1>7 DEF Report, WellFormed, OnOrigin, Searching, Asking, TypeOK, Locals
    <2>2. ASSUME NEW more \in SUBSET there,
                 NEW f \in Taken(a, call[c].found \cup more),
                 Become(c, [call[c] EXCEPT
                      !.pc = IF Done(a, rest, f) THEN "ok" ELSE "report",
                      !.todo = IF Done(a, rest, f) THEN {} ELSE rest,
                      !.found = f])
          PROVE  \E l \in Locals : Become(c, l) /\ WellFormed(l) /\ OnOrigin(l)
      <3>1. f \subseteq Contacts
        BY <2>1, <2>2 DEF Taken
      <3> DEFINE new == [call[c] EXCEPT
                      !.pc = IF Done(a, rest, f) THEN "ok" ELSE "report",
                      !.todo = IF Done(a, rest, f) THEN {} ELSE rest,
                      !.found = f]
      <3> HIDE DEF rest, there
      <3>2. Good(new)
        BY <1>0, <2>1, <3>1 DEF Locals, PC, Asking, Searching, Results, WellFormed, OnOrigin
      <3> QED BY <2>2, <3>2
    <2>3. CASE Fail(c, "not_found") \/ Fail(c, "invalid")
      BY <1>f, <2>3 DEF Results
    <2> QED BY <1>7, <2>2, <2>3 DEF Report
  <1>8. CASE ExchangeFails(c)
    BY <1>f, <1>8 DEF ExchangeFails, Results
  <1>9. CASE Refused(c)
    <2>1. call[c].arg \in Args
      BY <1>0, <1>9 DEF Refused, WellFormed, Searching
    <2>2. Good([Idle EXCEPT !.pc = "evict", !.arg = call[c].arg])
      BY <2>1 DEF Idle, Locals, PC, Asking, Searching, Results, WellFormed, OnOrigin
    <2> QED BY <1>9, <2>2 DEF Refused
  <1>10. CASE React(c)
    BY <1>f, <1>10 DEF React, Results
  <1> QED BY <1>1, <1>2, <1>3, <1>4, <1>5, <1>6, <1>7, <1>8, <1>9, <1>10
-----------------------------------------------------------------------------
CacheType == [Tokens -> [home : Homes, cached_at : 0..now] \cup {None}]

TrustedHomes == \A t \in Tokens : discoveries[t] # None => discoveries[t].home \in Trusted

\* A cache that lost entries, or kept them all, is within the cap.
LEMMA FewerAreCached ==
  ASSUME DiscoveriesBounded, Cached' \subseteq Cached
  PROVE  DiscoveriesBounded'
  <1>1. IsFiniteSet(Cached)
    BY ReadsAssumption, FS_Subset DEF Cached
  <1>2. /\ Cardinality(Cached') <= Cardinality(Cached)
        /\ Cardinality(Cached) \in Nat /\ Cardinality(Cached') \in Nat
    BY <1>1, FS_Subset, FS_CardinalityType
  <1> QED BY <1>2, ReadsAssumption DEF DiscoveriesBounded

\* discovery_insert makes room before it adds a token.
LEMMA InsertIsBounded ==
  ASSUME DiscoveriesBounded, NEW t, NEW gone \in Victims(t),
         Cached' \subseteq (Kept \ gone) \cup {t}
  PROVE  DiscoveriesBounded'
  <1>1. IsFiniteSet(Cached) /\ Kept \subseteq Cached
    BY ReadsAssumption, FS_Subset DEF Cached, Kept
  <1>2. IsFiniteSet(Kept) /\ Cardinality(Kept) <= Cardinality(Cached)
        /\ Cardinality(Kept) \in Nat /\ Cardinality(Cached) \in Nat
    BY <1>1, FS_Subset, FS_CardinalityType
  <1>3. CASE t \in Kept
    <2>1. Cached' \subseteq Cached
      BY <1>1, <1>3
    <2> QED BY <2>1, FewerAreCached
  <1>4. CASE t \notin Kept
    <2>1. Cardinality(Kept \ gone) < DiscoveryCap /\ IsFiniteSet(Kept \ gone)
      <3>1. CASE Cardinality(Kept) < DiscoveryCap
        <4>1. gone = {}
          BY <3>1 DEF Victims
        <4>2. Kept \ gone = Kept
          BY <4>1
        <4> QED BY <1>2, <3>1, <4>2
      <3>2. CASE ~(Cardinality(Kept) < DiscoveryCap)
        <4>1. PICK v \in Kept : gone = {v}
          BY <1>4, <3>2 DEF Victims, Oldest
        <4>2. Cardinality(Kept \ {v}) = Cardinality(Kept) - 1 /\ IsFiniteSet(Kept \ {v})
          BY <1>2, <4>1, FS_RemoveElement
        <4> QED BY <1>2, <4>1, <4>2, ReadsAssumption DEF DiscoveriesBounded
      <3> QED BY <3>1, <3>2
    <2>2. IsFiniteSet((Kept \ gone) \cup {t}) /\ Cardinality(Kept \ gone) \in Nat
          /\ Cardinality((Kept \ gone) \cup {t}) = Cardinality(Kept \ gone) + 1
          /\ Cardinality((Kept \ gone) \cup {t}) \in Nat
      <3> DEFINE rest == Kept \ gone
      <3>1. t \notin rest /\ IsFiniteSet(rest)
        BY <1>4, <2>1
      <3> HIDE DEF rest
      <3>2. IsFiniteSet(rest \cup {t}) /\ Cardinality(rest \cup {t}) = Cardinality(rest) + 1
        BY <3>1, FS_AddElement
      <3>3. Cardinality(rest) \in Nat /\ Cardinality(rest \cup {t}) \in Nat
        BY <3>1, <3>2, FS_CardinalityType
      <3> QED BY <3>2, <3>3 DEF rest
    <2>3. Cardinality(Cached') <= Cardinality((Kept \ gone) \cup {t})
          /\ Cardinality(Cached') \in Nat
      BY <2>2, FS_Subset, FS_CardinalityType
    <2> QED BY <2>1, <2>2, <2>3, ReadsAssumption DEF DiscoveriesBounded
  <1> QED BY <1>3, <1>4

\* What is cached after an insertion is a discovered home.
LEMMA DiscoverCaches ==
  ASSUME IInv, NEW c \in Calls, Discover(c)
  PROVE  /\ call[c].arg \in Args /\ call[c].arg.token \in Tokens
         /\ Entry(call[c].home) \in [home : Homes, cached_at : 0..now]
         /\ discoveries' \in CacheType /\ TrustedHomes' /\ DiscoveriesBounded'
         /\ \A u \in Tokens :
              \/ u = call[c].arg.token /\ discoveries'[u] = Entry(call[c].home)
              \/ discoveries'[u] \in {discoveries[u], None}
  <1> DEFINE t == call[c].arg.token
  <1>1. /\ call[c].arg \in Args /\ t \in Tokens
        /\ call[c].home \in Homes /\ call[c].home \in Trusted
    BY DEF Discover, IInv, Shape, WellFormed, OnOrigin, Searching, Args
  <1>2. Entry(call[c].home) = [home |-> call[c].home, cached_at |-> now]
        /\ now \in 0..now
    BY DEF Entry, IInv, Shape, TypeOK
  <1>3. PICK gone \in Victims(t) :
          discoveries' = [u \in Tokens |->
             IF u = t THEN Entry(call[c].home)
             ELSE IF u \in Kept \ gone THEN discoveries[u] ELSE None]
    BY DEF Discover
  <1>4. Cached' \subseteq (Kept \ gone) \cup {t}
    BY <1>3 DEF Cached
  <1>5. DiscoveriesBounded'
    BY <1>4, InsertIsBounded DEF IInv
  <1> HIDE DEF t
  <1>6. discoveries' \in CacheType /\ TrustedHomes'
    BY <1>1, <1>2, <1>3 DEF IInv, Shape, TypeOK, CacheType, TrustedHomes
  <1> QED BY <1>1, <1>2, <1>3, <1>5, <1>6 DEF t

\* A refusal of the bearer makes its entry go.
LEMMA EvictForgets ==
  ASSUME IInv, NEW c \in Calls, Evict(c)
  PROVE  /\ discoveries' \in CacheType /\ TrustedHomes' /\ DiscoveriesBounded'
         /\ \A u \in Tokens : discoveries'[u] \in {discoveries[u], None}
  <1>1. \A u \in Tokens : discoveries'[u] \in {discoveries[u], None}
    BY DEF Evict, IInv, Shape, TypeOK
  <1>2. discoveries' \in CacheType /\ TrustedHomes'
    BY DEF Evict, IInv, Shape, TypeOK, CacheType, TrustedHomes
  <1>3. Cached' \subseteq Cached
    BY <1>1 DEF Cached
  <1> QED BY <1>1, <1>2, <1>3, FewerAreCached DEF IInv

\* At the start nothing is cached and no call is under way.
LEMMA IInvInit == Init => IInv
  <1> SUFFICES ASSUME Init PROVE IInv
    OBVIOUS
  <1>1. Cached = {}
    BY DEF Init, Cached
  <1>2. DiscoveriesBounded
    BY <1>1, FS_EmptySet, ReadsAssumption DEF DiscoveriesBounded
  <1>3. Idle \in Locals /\ WellFormed(Idle) /\ OnOrigin(Idle)
    BY DEF Idle, Locals, PC, Results, Asking, Searching, WellFormed, OnOrigin
  <1>4. call \in [Calls -> Locals] /\ \A c \in Calls : call[c] = Idle
    BY <1>3 DEF Init
  <1>5. Shape
    BY <1>3, <1>4, ReadsAssumption DEF Init, Shape, TypeOK, Locals
  <1> QED BY <1>2, <1>5 DEF IInv

\* Every step keeps IInv.
LEMMA IInvStep == IInv /\ [Next]_vars => IInv'
  <1> SUFFICES ASSUME IInv, [Next]_vars PROVE IInv'
    OBVIOUS
  <1>0. call \in [Calls -> Locals] /\ discoveries \in CacheType /\ TrustedHomes /\ TypeOK
    BY DEF IInv, Shape, TypeOK, Locals, CacheType, TrustedHomes
  <1>1. ASSUME NEW c \in Calls,
               \/ \E a \in Queries : Call(c, a)
               \/ Reject(c)
               \/ FindPrincipal(c) \/ FindHome(c) \/ Discover(c) \/ ListBooks(c)
               \/ \E b \in Books : Report(c, b)
               \/ ExchangeFails(c) \/ Refused(c) \/ React(c)
        PROVE  IInv'
    <2>1. /\ call' \in [Calls -> Locals]
          /\ \A d \in Calls : WellFormed(call'[d]) /\ OnOrigin(call'[d])
      BY <1>1, CallStep, Becoming DEF IInv
    <2>2. /\ UNCHANGED <<now, server>>
          /\ answered' = answered \/ answered' = [answered EXCEPT ![c] = now]
      BY <1>1 DEF Call, Reject, FindPrincipal, FindHome, Discover, ListBooks, Report,
                  ExchangeFails, Refused, React, history
    <2>3. answered' \in [Calls -> 0..now]
      BY <2>2 DEF IInv, Shape, TypeOK
    <2>4. discoveries' \in CacheType /\ TrustedHomes' /\ DiscoveriesBounded'
      <3>1. CASE Discover(c)
        BY <3>1, DiscoverCaches
      <3>2. CASE Refused(c) \/ React(c)
        BY <3>2, EvictForgets DEF Refused, React
      <3>3. CASE UNCHANGED discoveries
        <4>1. Cached' \subseteq Cached
          BY <3>3 DEF Cached
        <4> QED BY <1>0, <3>3, <4>1, FewerAreCached DEF IInv, TrustedHomes
      <3> QED BY <1>1, <3>1, <3>2, <3>3
              DEF Call, Reject, FindPrincipal, FindHome, ListBooks, Report, ExchangeFails
    <2>5. TypeOK'
      BY <1>0, <2>1, <2>2, <2>3, <2>4 DEF TypeOK, server, Locals, CacheType
    <2> QED BY <2>1, <2>4, <2>5 DEF IInv, Shape, TrustedHomes
  <1>2. ASSUME NEW acc \in [Tokens -> Accounts], NEW bs \in SUBSET Books,
               NEW cs \in SUBSET Contacts, Change(acc, bs, cs)
        PROVE  IInv'
    <2>1. UNCHANGED <<now, discoveries, call, answered>>
          /\ account' = acc /\ books' = bs /\ contacts' = cs
          /\ moved' = [t \in Tokens |-> IF acc[t] = account[t] THEN moved[t] ELSE now]
      BY <1>2 DEF Change
    <2>2. moved' \in [Tokens -> 0..now]
      BY <1>0, <2>1 DEF TypeOK
    <2>3. TypeOK'
      BY <1>0, <2>1, <2>2 DEF TypeOK
    <2>4. DiscoveriesBounded'
      BY <2>1, FewerAreCached DEF IInv, Cached
    <2> QED BY <2>1, <2>3, <2>4 DEF IInv, Shape
  <1>3. CASE Tick
    <2>1. now' = now + 1 /\ UNCHANGED <<server, discoveries, call, history>>
      BY <1>3 DEF Tick
    <2>2. 0..now \subseteq 0..now' /\ now' \in Nat
      BY <1>0, <2>1 DEF TypeOK
    <2>3. /\ discoveries' \in [Tokens -> [home : Homes, cached_at : 0..now'] \cup {None}]
          /\ moved' \in [Tokens -> 0..now'] /\ answered' \in [Calls -> 0..now']
      BY <1>0, <2>1, <2>2 DEF TypeOK, server, history
    <2>4. TypeOK'
      BY <1>0, <2>1, <2>2, <2>3 DEF TypeOK, server
    <2>5. DiscoveriesBounded'
      BY <2>1, FewerAreCached DEF IInv, Cached
    <2> QED BY <2>1, <2>4, <2>5 DEF IInv, Shape
  <1>4. CASE UNCHANGED vars
    <2>1. Cached' \subseteq Cached
      BY <1>4 DEF vars, Cached
    <2>2. Shape'
      BY <1>4 DEF vars, server, history, IInv, Shape, TypeOK
    <2> QED BY <2>1, <2>2, FewerAreCached DEF IInv
  <1>5. ASSUME NEW k \in Contacts, ContactAppears(k) \/ ContactGoes(k) PROVE IInv'
    BY <1>0, <1>2, <1>5 DEF TypeOK, ContactAppears, ContactGoes
  <1>6. ASSUME NEW b \in Books, BookGoes(b) PROVE IInv'
    BY <1>0, <1>2, <1>6 DEF TypeOK, BookGoes
  <1>7. ASSUME NEW t \in Tokens, NEW a \in AccountsOf[t], AccountMoves(t, a)
        PROVE  IInv'
    <2>1. [account EXCEPT ![t] = a] \in [Tokens -> Accounts]
      BY <1>0, <1>7 DEF TypeOK, Accounts
    <2> QED BY <1>0, <1>2, <1>7, <2>1 DEF TypeOK, AccountMoves
  <1> QED BY <1>1, <1>3, <1>4, <1>5, <1>6, <1>7 DEF Next

\* IInv is an invariant.
LEMMA Invariance == Spec => []IInv
  BY IInvInit, IInvStep, PTL DEF Spec

\* The variables keep their types.
THEOREM TypeCorrect == Spec => []TypeOK
  <1>1. IInv => TypeOK
    BY DEF IInv, Shape
  <1> QED BY <1>1, Invariance, PTL

\* Whatever hrefs the server names, the bearer goes to trusted ones.
THEOREM BearerStays == Spec => []BearerStaysOnOrigin
  <1>1. IInv => BearerStaysOnOrigin
    BY DEF IInv, Shape, OnOrigin, BearerStaysOnOrigin
  <1> QED BY <1>1, Invariance, PTL

\* DISCOVERY_CAP bounds the cache.
THEOREM DiscoveriesAreBounded == Spec => []DiscoveriesBounded
  <1>1. IInv => DiscoveriesBounded
    BY DEF IInv
  <1> QED BY <1>1, Invariance, PTL
-----------------------------------------------------------------------------
\* A home that the account has left was answered before the move, and was
\* cached within the time of an exchange.
Lag ==
  /\ \A t \in Tokens :
       discoveries[t] # None /\ discoveries[t].home # account[t].home
         => discoveries[t].cached_at <= moved[t] + HttpTimeout
  /\ \A c \in Calls :
       call[c].pc = "discovered" =>
         /\ now <= answered[c] + HttpTimeout
         /\ call[c].home # account[call[c].arg.token].home
              => answered[c] <= moved[call[c].arg.token]

\* Only FindHome leaves an answer about a home in hand.
LEMMA InHand ==
  ASSUME IInv, NEW c \in Calls,
         \/ \E a \in Queries : Call(c, a)
         \/ Reject(c)
         \/ FindPrincipal(c) \/ FindHome(c) \/ Discover(c) \/ ListBooks(c)
         \/ \E b \in Books : Report(c, b)
         \/ ExchangeFails(c) \/ Refused(c) \/ React(c)
  PROVE  /\ \A d \in Calls : d # c => call'[d] = call[d] /\ answered'[d] = answered[d]
         /\ call'[c].pc = "discovered" =>
              /\ answered'[c] = now
              /\ call'[c].arg = call[c].arg
              /\ call'[c].home = account[call[c].arg.token].home
  <1>1. \A d \in Calls : d # c => call'[d] = call[d]
    BY CallStep, Becoming DEF IInv
  <1>2. call \in [Calls -> Locals] /\ answered \in [Calls -> 0..now]
    BY DEF IInv, Shape, TypeOK, Locals
  <1>3. \A d \in Calls : d # c => answered'[d] = answered[d]
    BY <1>2 DEF Call, Reject, FindPrincipal, FindHome, Discover, ListBooks, Report,
                ExchangeFails, Refused, React, history
  <1>4. ASSUME NEW l, Become(c, l) PROVE call'[c] = l
    BY <1>2, <1>4 DEF Become
  <1>5. ASSUME NEW x, Fail(c, x), x # "discovered" PROVE call'[c].pc # "discovered"
    BY <1>4, <1>5 DEF Fail, Idle
  <1>6. ASSUME NEW a \in Queries, Call(c, a) PROVE call'[c].pc # "discovered"
    <2> DEFINE asked == [Idle EXCEPT !.arg = a]
    <2>1. CASE Become(c, [asked EXCEPT !.pc = "report", !.todo = {a.book}])
      BY <1>4, <2>1 DEF Idle
    <2>2. CASE Become(c, [asked EXCEPT !.pc = AfterDiscovery(a),
                                       !.home = discoveries[a.token].home])
      BY <1>4, <2>2 DEF Idle, AfterDiscovery
    <2>3. CASE Become(c, [asked EXCEPT !.pc = "principal"])
      BY <1>4, <2>3 DEF Idle
    <2> QED BY <1>5, <1>6, <2>1, <2>2, <2>3 DEF Call
  <1>7. ASSUME FindPrincipal(c) PROVE call'[c].pc # "discovered"
    BY <1>2, <1>4, <1>5, <1>7 DEF FindPrincipal, Locals
  <1>8. ASSUME Discover(c) PROVE call'[c].pc # "discovered"
    BY <1>2, <1>4, <1>8 DEF Discover, Locals, AfterDiscovery
  <1>9. ASSUME ListBooks(c) PROVE call'[c].pc # "discovered"
    BY <1>2, <1>4, <1>5, <1>9 DEF ListBooks, Locals
  <1>10. ASSUME NEW b \in Books, Report(c, b) PROVE call'[c].pc # "discovered"
    <2>1. CASE Fail(c, "not_found") \/ Fail(c, "invalid")
      BY <1>5, <2>1
    <2>2. ASSUME NEW p \in {"ok", "report"}, NEW td, NEW f,
                 Become(c, [call[c] EXCEPT !.pc = p, !.todo = td, !.found = f])
          PROVE  call'[c].pc # "discovered"
      BY <1>2, <1>4, <2>2 DEF Locals
    <2> QED BY <1>10, <2>1, <2>2 DEF Report
  <1>11. ASSUME Refused(c) PROVE call'[c].pc # "discovered"
    BY <1>4, <1>11 DEF Refused, Idle
  <1>12. ASSUME FindHome(c), call'[c].pc = "discovered"
         PROVE  /\ answered'[c] = now
                /\ call'[c].arg = call[c].arg
                /\ call'[c].home = account[call[c].arg.token].home
    <2> DEFINE h == account[call[c].arg.token].home
    <2>1. answered'[c] = now
      BY <1>2, <1>12 DEF FindHome
    <2>2. CASE Become(c, [call[c] EXCEPT !.pc = "discovered",
                                         !.principal = None, !.home = h])
      <3> HIDE DEF h
      <3>1. call'[c].arg = call[c].arg /\ call'[c].home = h
        BY <1>2, <1>4, <2>2 DEF Locals
      <3> QED BY <2>1, <3>1 DEF h
    <2> QED BY <1>5, <1>12, <2>1, <2>2 DEF FindHome
  <1>13. ASSUME Reject(c) \/ ExchangeFails(c) \/ React(c) PROVE call'[c].pc # "discovered"
    BY <1>5, <1>13 DEF Reject, ExchangeFails, React
  <1> QED BY <1>1, <1>3, <1>6, <1>7, <1>8, <1>9, <1>10, <1>11, <1>12, <1>13

\* Every step keeps Lag.
LEMMA LagStep == IInv /\ Lag /\ [Next]_vars => Lag'
  <1> SUFFICES ASSUME IInv, Lag, [Next]_vars PROVE Lag'
    OBVIOUS
  <1>0. /\ now \in Nat /\ HttpTimeout \in Nat /\ answered \in [Calls -> 0..now]
        /\ moved \in [Tokens -> 0..now] /\ discoveries \in CacheType
        /\ \A c \in Calls : call[c].pc = "discovered" => call[c].arg.token \in Tokens
    BY ReadsAssumption
    DEF IInv, Shape, TypeOK, CacheType, WellFormed, Searching, Args
  <1>1. ASSUME NEW c \in Calls,
               \/ \E a \in Queries : Call(c, a)
               \/ Reject(c)
               \/ FindPrincipal(c) \/ FindHome(c) \/ Discover(c) \/ ListBooks(c)
               \/ \E b \in Books : Report(c, b)
               \/ ExchangeFails(c) \/ Refused(c) \/ React(c)
        PROVE  Lag'
    <2>1. UNCHANGED <<now, account, moved>>
      BY <1>1 DEF Call, Reject, FindPrincipal, FindHome, Discover, ListBooks, Report,
                  ExchangeFails, Refused, React, server
    <2>2. ASSUME NEW d \in Calls, call'[d].pc = "discovered"
          PROVE  /\ now' <= answered'[d] + HttpTimeout
                 /\ call'[d].home # account'[call'[d].arg.token].home
                      => answered'[d] <= moved'[call'[d].arg.token]
      BY <1>0, <1>1, <2>1, <2>2, InHand DEF Lag
    <2>3. ASSUME NEW t \in Tokens,
                 discoveries'[t] # None, discoveries'[t].home # account'[t].home
          PROVE  discoveries'[t].cached_at <= moved'[t] + HttpTimeout
      <3>1. CASE discoveries'[t] = discoveries[t]
        BY <2>1, <2>3, <3>1 DEF Lag
      <3>2. CASE Discover(c) /\ t = call[c].arg.token
                   /\ discoveries'[t] = Entry(call[c].home)
        <4>1. discoveries'[t].home = call[c].home /\ discoveries'[t].cached_at = now
          BY <3>2 DEF Entry
        <4>2. call[c].pc = "discovered"
          BY <3>2 DEF Discover
        <4>3. now <= answered[c] + HttpTimeout /\ answered[c] <= moved[t]
          BY <2>1, <2>3, <3>2, <4>1, <4>2 DEF Lag
        <4> QED BY <1>0, <2>1, <4>1, <4>3
      <3> QED BY <1>1, <2>3, <3>1, <3>2, DiscoverCaches, EvictForgets
              DEF Call, Reject, FindPrincipal, FindHome, ListBooks, Report,
                  ExchangeFails, Refused, React
    <2> QED BY <2>2, <2>3 DEF Lag
  <1>2. ASSUME NEW acc, NEW bs, NEW cs, Change(acc, bs, cs) PROVE Lag'
    <2>1. /\ UNCHANGED <<now, discoveries, call, answered>> /\ account' = acc
          /\ \A t \in Tokens : moved'[t] = IF acc[t] = account[t] THEN moved[t] ELSE now
      BY <1>2 DEF Change
    <2>2. ASSUME NEW t \in Tokens,
                 discoveries[t] # None, discoveries[t].home # acc[t].home
          PROVE  discoveries[t].cached_at <= moved'[t] + HttpTimeout
      <3>1. CASE acc[t] = account[t]
        BY <2>1, <2>2, <3>1 DEF Lag
      <3>2. CASE acc[t] # account[t]
        <4>1. discoveries[t].cached_at \in 0..now
          BY <1>0, <2>2 DEF CacheType
        <4> QED BY <1>0, <2>1, <3>2, <4>1
      <3> QED BY <3>1, <3>2
    <2>3. ASSUME NEW c \in Calls, call[c].pc = "discovered"
          PROVE  /\ now <= answered[c] + HttpTimeout
                 /\ call[c].home # acc[call[c].arg.token].home
                      => answered[c] <= moved'[call[c].arg.token]
      <3>1. CASE acc[call[c].arg.token] = account[call[c].arg.token]
        BY <1>0, <2>1, <2>3, <3>1 DEF Lag
      <3>2. CASE acc[call[c].arg.token] # account[call[c].arg.token]
        BY <1>0, <2>1, <2>3, <3>2 DEF Lag
      <3> QED BY <3>1, <3>2
    <2> QED BY <2>1, <2>2, <2>3 DEF Lag
  <1>3. CASE Tick
    <2>1. /\ now' = now + 1
          /\ UNCHANGED <<account, moved, discoveries, call, answered>>
          /\ \A c \in Calls : call[c].pc = "discovered" => now - answered[c] < HttpTimeout
      BY <1>3 DEF Tick, server, history
    <2> QED BY <1>0, <2>1 DEF Lag
  <1>4. CASE UNCHANGED vars
    BY <1>4 DEF vars, server, history, Lag
  <1> QED BY <1>1, <1>2, <1>3, <1>4
          DEF Next, ContactAppears, ContactGoes, BookGoes, AccountMoves

\* A call is given a home the account has left only for so long.
THEOREM HomesLagBriefly == Spec => HomeLagBounded
  <1>1. Init => Lag
    BY DEF Init, Lag, Idle
  <1>2. IInv /\ Lag /\ [Next]_vars =>
          [ \A c \in Calls :
              /\ call[c].pc = "idle" /\ call'[c].home # None
              /\ call'[c].home # account[call'[c].arg.token].home
              => now - moved[call'[c].arg.token] < DiscoveryTtl + HttpTimeout ]_vars
    <2> SUFFICES ASSUME IInv, Lag, Next, NEW c \in Calls, call[c].pc = "idle",
                        call'[c].home # None,
                        call'[c].home # account[call'[c].arg.token].home
                 PROVE  now - moved[call'[c].arg.token] < DiscoveryTtl + HttpTimeout
      BY DEF vars
    <2>0. call \in [Calls -> Locals] /\ call[c].home = None
      BY DEF IInv, Shape, TypeOK, Locals, WellFormed
    <2>1. ASSUME NEW x, Fail(c, x) PROVE FALSE
      BY <2>0, <2>1 DEF Fail, Become, Idle
    <2>2. PICK d \in Calls :
            \/ \E a \in Queries : Call(d, a)
            \/ Reject(d)
            \/ FindPrincipal(d) \/ FindHome(d) \/ Discover(d) \/ ListBooks(d)
            \/ \E b \in Books : Report(d, b)
            \/ ExchangeFails(d) \/ Refused(d) \/ React(d)
      BY <2>0 DEF Next, Tick, ContactAppears, ContactGoes, BookGoes, AccountMoves, Change
    <2>3. d = c
      BY <2>0, <2>2, InHand
    <2>4. PICK a \in Queries : Call(c, a)
      BY <2>1, <2>2, <2>3 DEF Reject, FindPrincipal, FindHome, Discover, ListBooks,
                              Report, ExchangeFails, Refused, React, Asking
    <2>5. a.token \in Tokens
      BY ReadsAssumption DEF Args
    <2> DEFINE asked == [Idle EXCEPT !.arg = a]
    <2>6. ASSUME NEW l, Become(c, l) PROVE call'[c] = l
      BY <2>0, <2>6 DEF Become
    <2>7. CacheHit(a.token) /\ Become(c, [asked EXCEPT !.pc = AfterDiscovery(a),
                                                   !.home = discoveries[a.token].home])
      <3>1. ~Become(c, [asked EXCEPT !.pc = "report", !.todo = {a.book}])
        BY <2>6 DEF Idle
      <3>2. ~Become(c, [asked EXCEPT !.pc = "principal"])
        BY <2>6 DEF Idle
      <3> QED BY <2>1, <2>4, <3>1, <3>2 DEF Call
    <2>8. call'[c].home = discoveries[a.token].home /\ call'[c].arg = a
      BY <2>6, <2>7 DEF Idle
    <2>9. discoveries[a.token].cached_at <= moved[a.token] + HttpTimeout
      BY <2>5, <2>7, <2>8 DEF Lag, CacheHit
    <2>10. now \in Nat /\ moved[a.token] \in Nat /\ discoveries[a.token].cached_at \in Nat
      BY <2>5, <2>7 DEF CacheHit, IInv, Shape, TypeOK
    <2> QED BY <2>7, <2>8, <2>9, <2>10, ReadsAssumption DEF CacheHit
  <1> QED BY <1>1, <1>2, LagStep, Invariance, PTL DEF Spec, HomeLagBounded
-----------------------------------------------------------------------------
\* The home a call works on is still the account's.
AtHome(l, acc) == l.arg.book # None \/ l.home = acc[l.arg.token].home

\* The contacts owed, st, are still in reach; while books are asked, each has
\* been found or lies in one still to be asked; and in the end all have been
\* found, unless the limit cut the answer.
Pursues(l, st, acc, bs, cs) ==
  l.pc \in Searching =>
    /\ st \subseteq InReach(l.arg, acc, bs, cs)
    /\ l.pc = "report" /\ AtHome(l, acc)
         => \A k \in st : k \in l.found \/ BookOf[k] \in l.todo
    /\ /\ l.pc = "ok" /\ AtHome(l, acc)
       /\ l.arg.tool \notin {"whoami", "list_address_books"}
       /\ Limited(l.arg) => Cardinality(l.found) < Limit
       => st \subseteq l.found

Pursued ==
  /\ owed \in [Calls -> SUBSET Contacts]
  /\ \A c \in Calls : Pursues(call[c], owed[c], account, books, contacts)

\* A call begins with all it could see, and all of it still to be found.
LEMMA CallPursues ==
  ASSUME IInv, Pursued, NEW c \in Calls, NEW a \in Queries, Call(c, a)
  PROVE  Pursues(call'[c], owed'[c], account, books, contacts)
  <1> DEFINE asked == [Idle EXCEPT !.arg = a]
  <1> DEFINE reach == InReach(a, account, books, contacts)
  <1>1. a \in Args /\ call \in [Calls -> Locals]
    BY ReadsAssumption DEF IInv, Shape, TypeOK, Locals
  <1>2. ASSUME NEW l, Become(c, l) PROVE call'[c] = l
    BY <1>1, <1>2 DEF Become
  <1>3. owed'[c] = reach
    BY DEF Call, Pursued
  <1>4. CASE Fail(c, "invalid")
    BY <1>2, <1>4 DEF Fail, Idle, Pursues, Searching, Asking
  <1>5. CASE a.book # None
             /\ Become(c, [asked EXCEPT !.pc = "report", !.todo = {a.book}])
    <2>1. /\ call'[c].pc = "report" /\ call'[c].arg = a /\ call'[c].todo = {a.book}
      BY <1>2, <1>5 DEF Idle
    <2>2. \A k \in reach : BookOf[k] = a.book
      BY <1>5 DEF InReach
    <2> QED BY <1>3, <2>1, <2>2 DEF Pursues
  <1>6. CASE Become(c, [asked EXCEPT !.pc = AfterDiscovery(a),
                                     !.home = discoveries[a.token].home])
    <2>1. call'[c].pc = AfterDiscovery(a) /\ call'[c].arg = a
      BY <1>2, <1>6 DEF Idle
    <2> QED BY <1>3, <2>1 DEF Pursues, AfterDiscovery
  <1>7. CASE Become(c, [asked EXCEPT !.pc = "principal"])
    <2>1. call'[c].pc = "principal" /\ call'[c].arg = a
      BY <1>2, <1>7 DEF Idle
    <2> QED BY <1>3, <2>1 DEF Pursues
  <1> QED BY <1>4, <1>5, <1>6, <1>7 DEF Call

\* The books of the account's home are all listed, but for those whose
\* contacts the call is no longer owed.
LEMMA ListPursues ==
  ASSUME IInv, Pursued, NEW c \in Calls, ListBooks(c)
  PROVE  Pursues(call'[c], owed'[c], account, books, contacts)
  <1> DEFINE a == call[c].arg
  <1> DEFINE there == {b \in books \ {call[c].home} : HomeOf[b] = call[c].home}
  <1>1. /\ call \in [Calls -> Locals] /\ call[c].pc = "list"
        /\ a \in Args /\ a.book = None
    BY DEF ListBooks, IInv, Shape, TypeOK, Locals, WellFormed, Searching, Asking
  <1>2. ASSUME NEW l, Become(c, l) PROVE call'[c] = l
    BY <1>1, <1>2 DEF Become
  <1>0. PICK listed \in SUBSET there :
          LET ends == call[c].arg.tool = "list_address_books" \/ listed = {}
          IN  /\ \/ Become(c, [call[c] EXCEPT
                         !.pc = IF ends THEN "ok" ELSE "report",
                         !.todo = IF ends THEN {} ELSE listed])
                 \/ Fail(c, "invalid")
              /\ owed' = [owed EXCEPT ![c] =
                            {k \in @ : BookOf[k] \notin there \ listed}]
    BY DEF ListBooks
  <1> DEFINE ends == a.tool = "list_address_books" \/ listed = {}
  <1> DEFINE st == {k \in owed[c] : BookOf[k] \notin there \ listed}
  <1>9. owed'[c] = st
    BY <1>0 DEF Pursued
  <1>3. CASE Fail(c, "invalid")
    BY <1>2, <1>3 DEF Fail, Idle, Pursues, Searching, Asking
  <1>4. CASE Become(c, [call[c] EXCEPT !.pc = IF ends THEN "ok" ELSE "report",
                                       !.todo = IF ends THEN {} ELSE listed])
    <2>1. st \subseteq InReach(a, account, books, contacts)
      BY <1>1 DEF Pursued, Pursues, Searching, Asking
    <2>2. call[c].home = account[a.token].home
            => \A k \in st : BookOf[k] \in listed
      BY <1>1, <2>1 DEF InReach
    <2> HIDE DEF there, st
    <2>3. /\ call'[c].arg = a /\ call'[c].home = call[c].home
          /\ call'[c].pc = (IF ends THEN "ok" ELSE "report")
          /\ call'[c].todo = (IF ends THEN {} ELSE listed)
      <3>1. call'[c] = [call[c] EXCEPT !.pc = IF ends THEN "ok" ELSE "report",
                                       !.todo = IF ends THEN {} ELSE listed]
        BY <1>2, <1>4
      <3>2. call[c] \in Locals
        BY <1>1
      <3> HIDE DEF a, ends
      <3>3. /\ call'[c].arg = call[c].arg /\ call'[c].home = call[c].home
            /\ call'[c].pc = (IF ends THEN "ok" ELSE "report")
            /\ call'[c].todo = (IF ends THEN {} ELSE listed)
        BY <3>1, <3>2 DEF Locals
      <3> QED BY <3>3 DEF a
    <2>4. CASE ends
      <3>1. a.tool # "list_address_books" /\ call[c].home = account[a.token].home
              => st = {}
        BY <2>2, <2>4
      <3> QED BY <1>1, <1>9, <2>1, <2>3, <2>4, <3>1 DEF Pursues, AtHome
    <2>5. CASE ~ends
      BY <1>1, <1>9, <2>1, <2>2, <2>3, <2>5 DEF Pursues, AtHome
    <2> QED BY <2>4, <2>5
  <1> QED BY <1>0, <1>3, <1>4

\* What lies in a book and is still owed is found with its answer.
LEMMA ReportPursues ==
  ASSUME IInv, Pursued, NEW c \in Calls, NEW b \in Books, Report(c, b)
  PROVE  Pursues(call'[c], owed'[c], account, books, contacts)
  <1> DEFINE a == call[c].arg
  <1> DEFINE rest == call[c].todo \ {b}
  <1> DEFINE there == {k \in contacts : BookOf[k] = b}
  <1>1. call \in [Calls -> Locals] /\ call[c].pc = "report"
    BY DEF Report, IInv, Shape, TypeOK, Locals
  <1>2. ASSUME NEW l, Become(c, l) PROVE call'[c] = l
    BY <1>1, <1>2 DEF Become
  <1>3. CASE Fail(c, "invalid") \/ Fail(c, "not_found")
    BY <1>2, <1>3 DEF Fail, Idle, Pursues, Searching, Asking
  <1>4. ASSUME NEW more \in SUBSET there, owed' = [owed EXCEPT ![c] = @ \ (there \ more)],
               NEW f \in Taken(a, call[c].found \cup more), call[c].found \subseteq f,
               Become(c, [call[c] EXCEPT
                 !.pc = IF Done(a, rest, f) THEN "ok" ELSE "report",
                 !.todo = IF Done(a, rest, f) THEN {} ELSE rest,
                 !.found = f])
        PROVE  Pursues(call'[c], owed'[c], account, books, contacts)
    <2> DEFINE st == owed[c] \ (there \ more)
    <2>9. owed'[c] = st
      BY <1>4 DEF Pursued
    <2>1. /\ st \subseteq InReach(a, account, books, contacts)
          /\ AtHome(call[c], account)
               => \A k \in st : k \in call[c].found \/ BookOf[k] \in call[c].todo
      BY <1>1 DEF Pursued, Pursues, Searching, Asking
    <2>2. f = call[c].found \cup more \/ (Limited(a) /\ Cardinality(f) = Limit)
      BY <1>4 DEF Taken
    <2>3. Limit \in Nat
      BY ReadsAssumption
    <2>4. AtHome(call[c], account) /\ f = call[c].found \cup more
            => \A k \in st : k \in f \/ BookOf[k] \in rest
      BY <2>1 DEF InReach
    <2> HIDE DEF rest, there, st
    <2>5. /\ call'[c].arg = a /\ call'[c].home = call[c].home /\ call'[c].found = f
          /\ call'[c].pc = (IF Done(a, rest, f) THEN "ok" ELSE "report")
          /\ call'[c].todo = (IF Done(a, rest, f) THEN {} ELSE rest)
      BY <1>1, <1>2, <1>4 DEF Locals
    <2>6. AtHome(call'[c], account) => AtHome(call[c], account)
      BY <2>5 DEF AtHome
    <2>7. CASE Done(a, rest, f)
      <3>1. call'[c].pc = "ok"
        BY <2>5, <2>7
      <3>2. Limited(a) /\ Cardinality(f) = Limit => ~(Cardinality(f) < Limit)
        BY <2>3
      <3>3. ASSUME AtHome(call[c], account), Limited(a) => Cardinality(f) < Limit
            PROVE  st \subseteq f
        <4>1. f = call[c].found \cup more
          BY <2>2, <3>2, <3>3
        <4>2. rest = {}
          <5>1. Limited(a) => ~(Cardinality(f) >= Limit)
            <6>1. ASSUME Limited(a) PROVE ~(Cardinality(f) >= Limit)
              <7>1. Cardinality(f) < Limit
                BY <3>3, <6>1
              <7>2. IsFiniteSet(f)
                BY <1>1, <4>1, ReadsAssumption, FS_Subset, FS_Union
                DEF there, Locals, IInv, Shape, TypeOK
              <7>3. Cardinality(f) \in Nat
                BY <7>2, FS_CardinalityType
              <7> QED BY <2>3, <7>1, <7>3
            <6> QED BY <6>1
          <5> QED BY <2>7, <5>1 DEF Done
        <4> QED BY <2>4, <3>3, <4>1, <4>2
      <3> QED BY <2>1, <2>5, <2>6, <2>9, <3>1, <3>3 DEF Pursues
    <2>8. CASE ~Done(a, rest, f)
      <3>1. call'[c].pc = "report" /\ call'[c].todo = rest
        BY <2>5, <2>8
      <3>2. f = call[c].found \cup more
        BY <2>2, <2>3, <2>8 DEF Done
      <3> QED BY <2>1, <2>4, <2>5, <2>6, <2>9, <3>1, <3>2 DEF Pursues
    <2> QED BY <2>7, <2>8
  <1> QED BY <1>3, <1>4 DEF Report

\* The other steps of a call ask no book.
LEMMA OthersPursue ==
  ASSUME IInv, Pursued, NEW c \in Calls,
         \/ Reject(c) \/ FindPrincipal(c) \/ FindHome(c) \/ Discover(c)
         \/ ExchangeFails(c) \/ Refused(c) \/ React(c)
  PROVE  Pursues(call'[c], owed[c], account, books, contacts)
  <1>1. call \in [Calls -> Locals]
    BY DEF IInv, Shape, TypeOK, Locals
  <1>2. ASSUME NEW l, Become(c, l) PROVE call'[c] = l
    BY <1>1, <1>2 DEF Become
  <1>3. ASSUME NEW x, x \notin Searching, Fail(c, x)
        PROVE  Pursues(call'[c], owed[c], account, books, contacts)
    BY <1>2, <1>3 DEF Fail, Idle, Pursues
  <1>4. CASE Refused(c)
    BY <1>2, <1>4 DEF Refused, Idle, Pursues, Searching, Asking
  <1>5. CASE Reject(c) \/ ExchangeFails(c) \/ React(c)
    BY <1>3, <1>5 DEF Reject, ExchangeFails, React, Searching, Asking
  <1>6. ASSUME call[c].pc \in Searching, call'[c].arg = call[c].arg,
               \/ call'[c].pc \in {"home", "discovered", "list"}
               \/ call'[c].pc = "ok" /\ call[c].arg.tool = "whoami"
        PROVE  Pursues(call'[c], owed[c], account, books, contacts)
    BY <1>6 DEF Pursued, Pursues
  <1>7. CASE FindPrincipal(c)
    <2>1. ASSUME NEW p, Become(c, [call[c] EXCEPT !.pc = "home", !.principal = p])
          PROVE  Pursues(call'[c], owed[c], account, books, contacts)
      BY <1>1, <1>2, <1>6, <1>7, <2>1 DEF FindPrincipal, Locals, Searching, Asking
    <2> QED BY <1>3, <1>7, <2>1 DEF FindPrincipal, Searching, Asking
  <1>8. CASE FindHome(c)
    <2>1. ASSUME NEW h, Become(c, [call[c] EXCEPT !.pc = "discovered",
                                                  !.principal = None, !.home = h])
          PROVE  Pursues(call'[c], owed[c], account, books, contacts)
      BY <1>1, <1>2, <1>6, <1>8, <2>1 DEF FindHome, Locals, Searching, Asking
    <2> QED BY <1>3, <1>8, <2>1 DEF FindHome, Searching, Asking
  <1>9. CASE Discover(c)
    BY <1>1, <1>2, <1>6, <1>9 DEF Discover, Locals, Searching, AfterDiscovery
  <1> QED BY <1>4, <1>5, <1>7, <1>8, <1>9

\* Every step keeps Pursued; where the account comes back to a home it had
\* left, nothing was in reach all along.
LEMMA PursuedStep == IInv /\ Pursued /\ [Next]_vars => Pursued'
  <1> SUFFICES ASSUME IInv, Pursued, [Next]_vars PROVE Pursued'
    OBVIOUS
  <1>0. call \in [Calls -> Locals] /\ books \subseteq Books /\ contacts \subseteq Contacts
    BY DEF IInv, Shape, TypeOK, Locals
  <1>1. ASSUME NEW c \in Calls,
               \/ \E a \in Queries : Call(c, a)
               \/ Reject(c)
               \/ FindPrincipal(c) \/ FindHome(c) \/ Discover(c) \/ ListBooks(c)
               \/ \E b \in Books : Report(c, b)
               \/ ExchangeFails(c) \/ Refused(c) \/ React(c)
        PROVE  Pursued'
    <2>1. UNCHANGED <<account, books, contacts>>
      BY <1>1 DEF Call, Reject, FindPrincipal, FindHome, Discover, ListBooks, Report,
                  ExchangeFails, Refused, React, server
    <2>2. /\ owed' \in [Calls -> SUBSET Contacts]
          /\ \A d \in Calls : d # c => call'[d] = call[d] /\ owed'[d] = owed[d]
      <3>1. \A d \in Calls : d # c => call'[d] = call[d]
        BY <1>1, InHand
      <3>2. CASE owed' = owed
        BY <3>1, <3>2 DEF Pursued
      <3>3. ASSUME NEW a \in Queries, Call(c, a)
            PROVE  /\ owed' \in [Calls -> SUBSET Contacts]
                   /\ \A d \in Calls : d # c => owed'[d] = owed[d]
        <4>1. InReach(a, account, books, contacts) \subseteq Contacts
          BY <1>0 DEF InReach
        <4>2. owed' = [owed EXCEPT ![c] = InReach(a, account, books, contacts)]
          BY <3>3 DEF Call
        <4> QED BY <4>1, <4>2 DEF Pursued
      <3>4. ASSUME NEW kept \in SUBSET owed[c], owed' = [owed EXCEPT ![c] = kept]
            PROVE  /\ owed' \in [Calls -> SUBSET Contacts]
                   /\ \A d \in Calls : d # c => owed'[d] = owed[d]
        BY <3>4 DEF Pursued
      <3>5. ASSUME ListBooks(c) \/ \E b \in Books : Report(c, b)
            PROVE  \/ owed' = owed
                   \/ \E kept \in SUBSET owed[c] : owed' = [owed EXCEPT ![c] = kept]
        BY <3>5 DEF Pursued, ListBooks, Report
      <3> QED BY <1>1, <3>1, <3>2, <3>3, <3>4, <3>5
              DEF Reject, FindPrincipal, FindHome, Discover,
                  ExchangeFails, Refused, React, history
    <2>3. Pursues(call'[c], owed'[c], account, books, contacts)
      <3>1. ASSUME NEW a \in Queries, Call(c, a)
            PROVE  Pursues(call'[c], owed'[c], account, books, contacts)
        BY <3>1, CallPursues
      <3>2. CASE owed' = owed /\ Pursues(call'[c], owed[c], account, books, contacts)
        BY <3>2
      <3> QED BY <1>1, <3>1, <3>2, ListPursues, ReportPursues, OthersPursue
              DEF Reject, FindPrincipal, FindHome, Discover, ListBooks, Report,
                  ExchangeFails, Refused, React, history
    <2>4. \A d \in Calls : Pursues(call'[d], owed'[d], account', books', contacts')
      BY <2>1, <2>2, <2>3 DEF Pursued
    <2> QED BY <2>2, <2>4 DEF Pursued
  <1>2. ASSUME NEW acc, NEW bs, NEW cs, Change(acc, bs, cs) PROVE Pursued'
    <2>1. /\ call' = call /\ account' = acc /\ books' = bs /\ contacts' = cs
          /\ owed' = [c \in Calls |->
               IF call[c].arg = None THEN owed[c]
               ELSE owed[c] \cap InReach(call[c].arg, acc, bs, cs)]
      BY <1>2 DEF Change
    <2>2. owed' \in [Calls -> SUBSET Contacts]
      BY <2>1 DEF Pursued
    <2>3. ASSUME NEW c \in Calls, call[c].pc \in Searching
          PROVE  Pursues(call[c], owed'[c], acc, bs, cs)
      <3> DEFINE a == call[c].arg
      <3>1. a \in Args /\ a # None
        BY <2>3, ReadsAssumption DEF IInv, Shape, WellFormed
      <3>2. owed'[c] = owed[c] \cap InReach(a, acc, bs, cs)
        BY <2>1, <3>1
      <3>3. Pursues(call[c], owed[c], account, books, contacts)
        BY DEF Pursued
      <3>4. CASE AtHome(call[c], account)
        BY <2>3, <3>2, <3>3, <3>4 DEF Pursues
      <3>5. CASE ~AtHome(call[c], account) /\ AtHome(call[c], acc)
        <4>1. owed[c] \subseteq InReach(a, account, books, contacts)
          BY <2>3, <3>3 DEF Pursues
        <4>2. owed'[c] = {}
          BY <3>2, <3>5, <4>1 DEF AtHome, InReach
        <4> QED BY <4>2 DEF Pursues
      <3>6. CASE ~AtHome(call[c], acc)
        BY <3>2, <3>6 DEF Pursues
      <3> QED BY <3>4, <3>5, <3>6
    <2>4. ASSUME NEW c \in Calls, call[c].pc \notin Searching
          PROVE  Pursues(call[c], owed'[c], acc, bs, cs)
      BY <2>4 DEF Pursues
    <2> QED BY <2>1, <2>2, <2>3, <2>4 DEF Pursued
  <1>3. CASE UNCHANGED <<account, books, contacts, call, owed>>
    BY <1>3 DEF Pursued
  <1> QED BY <1>1, <1>2, <1>3
          DEF Next, Tick, ContactAppears, ContactGoes, BookGoes, AccountMoves,
              vars, server, history

\* An answer the limit did not cut has all that the server's own answers
\* named, or it is an error.
THEOREM AnswersAreComplete == Spec => []CompleteOrFailed
  <1>1. Init => Pursued
    BY DEF Init, Pursued, Pursues, Idle, Searching, Asking
  <1>2. Pursued => CompleteOrFailed
    BY DEF Pursued, Pursues, AtHome, CompleteOrFailed, Searching
  <1> QED BY <1>1, <1>2, PursuedStep, Invariance, PTL DEF Spec
=============================================================================
