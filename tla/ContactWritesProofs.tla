------------------------- MODULE ContactWritesProofs ------------------------
(***************************************************************************)
(* Type correctness, the absence of lost updates, and the refinement of    *)
(* ContactStore, for any number of calls and contacts.  A version that has *)
(* been replaced never comes back; so at the PUT of an update, what is at  *)
(* its href is either what the GET returned or newer than that and than    *)
(* the version the caller names (Current).  The precondition then admits   *)
(* the write only in the first case.                                       *)
(***************************************************************************)
EXTENDS ContactWrites, TLAPS

\* Versions in use have been given out.
GivenOut ==
  /\ \A h \in Hrefs : store[h] # None => store[h].etag <= writes
  /\ \A c \in Calls : base[c] # None => base[c].etag <= writes
  /\ \A c \in Calls : arg[c] # None /\ arg[c].etag # None => arg[c].etag <= writes

\* A call has its arguments once it is made, and no effect before its PUT.
Started ==
  \A c \in Calls :
    /\ pc[c] # "idle" => arg[c] # None
    /\ pc[c] = "get" => arg[c].tool = "update"
    /\ pc[c] \in {"idle", "get", "put"} => applied[c] = None
    /\ arg[c] # None /\ arg[c].tool = "create" => arg[c].uid = arg[c].href

\* What an update that is about to write knows of the contact.
Current ==
  \A c \in Calls :
    pc[c] = "put" /\ arg[c].tool = "update" =>
      /\ base[c] # None
      /\ base[c].uid # NoUid /\ arg[c].uid \in {None, base[c].uid}
      /\ LET there == store[arg[c].href]
         IN  there \notin {None, base[c]} =>
               /\ there.etag > base[c].etag
               /\ arg[c].etag # None => there.etag > arg[c].etag

IInv == TypeOK /\ GivenOut /\ Started /\ Current /\ NoLostUpdate

\* The store is empty and nothing has been called.
LEMMA IInvInit == Init => IInv
  BY ContactAssumption
  DEF Init, IInv, TypeOK, GivenOut, Started, Current, NoLostUpdate, PC

\* An update that its precondition admits writes on the version it read.
LEMMA WritesOnWhatItRead ==
  ASSUME IInv, NEW c \in Calls, pc[c] = "put", arg[c].tool = "update",
         Precondition(c)
  PROVE  /\ base[c] \in Card /\ store[arg[c].href] = base[c]
         /\ arg[c].etag \in {None, base[c].etag}
         /\ base[c].uid # NoUid /\ arg[c].uid \in {None, base[c].uid}
  <1> DEFINE there == store[arg[c].href]
  <1>1. arg[c] \in Args /\ base[c] \in Card /\ there \in Card
    BY NoneAssumption DEF IInv, TypeOK, Started, Current, Precondition, Exists, Args
  <1>2. IfMatch(c) = IF arg[c].etag # None THEN arg[c].etag ELSE base[c].etag
    BY <1>1 DEF IfMatch
  <1>3. IfMatch(c) = there.etag
    BY <1>1, <1>2, NoneAssumption, ContactAssumption
    DEF Precondition, Card, Etag, IInv, Current
  <1>4. there = base[c]
    BY <1>1, <1>2, <1>3, NoneAssumption DEF IInv, Current, Card, Etag, Args
  <1> QED BY <1>1, <1>2, <1>3, <1>4 DEF IInv, Current

\* What a PUT or DELETE does when the server applies it.
LEMMA Effects ==
  ASSUME IInv, NEW c \in Calls, ServerWrites(c), Applies(c)
  PROVE  LET h == arg[c].href
         IN  /\ arg[c] \in Args /\ h \in Hrefs
             /\ IF arg[c].tool = "delete"
                THEN store' = [store EXCEPT ![h] = None] /\ writes' = writes
                ELSE /\ writes < MaxWrites /\ writes' = writes + 1
                     /\ Written(c) \in Card /\ Written(c).etag = writes + 1
                     /\ store' = [store EXCEPT ![h] = Written(c)]
             /\ applied' = [applied EXCEPT ![c] =
                              IF store[h] # None THEN store[h].etag ELSE 0]
             /\ pc' = [pc EXCEPT ![c] = "2xx"]
             /\ arg' = arg /\ base' = base /\ book' = book
  <1>1. arg[c] \in Args /\ pc[c] = "put" /\ writes \in 0..MaxWrites
    BY DEF IInv, TypeOK, Started, ServerWrites
  <1>2. ASSUME arg[c].tool # "delete", writes < MaxWrites
        PROVE  Written(c) \in Card /\ Written(c).etag = writes + 1
    <2>1. writes + 1 \in Etag
      BY <1>1, <1>2, ContactAssumption DEF Etag
    <2>2. CASE arg[c].tool = "create"
      <3>1. arg[c].uid \in Uids
        BY <1>1, <2>2, ContactAssumption DEF IInv, Started, Args
      <3> QED BY <2>1, <2>2, <3>1 DEF Written, Card
    <2>3. CASE arg[c].tool = "update"
      BY <1>1, <2>1, <2>3, WritesOnWhatItRead DEF Applies, Written, Card
    <2> QED BY <1>1, <1>2, <2>2, <2>3 DEF Args
  <1> QED BY <1>1, <1>2 DEF ServerWrites, Applies, Exists, Goto, Args

\* Steps by which the store takes a new version, or loses one, keep what is
\* known of the versions: a new one is newer than all that are known.
LEMMA NewVersion ==
  ASSUME IInv, NEW h \in Hrefs, NEW card \in Card \cup {None},
         store' = [store EXCEPT ![h] = card],
         \/ card = None /\ writes' = writes
         \/ /\ card \in Card /\ card.etag = writes + 1
            /\ writes' = writes + 1 /\ writes < MaxWrites,
         arg' = arg, base' = base,
         \A c \in Calls : pc'[c] = "put" => pc[c] = "put"
  PROVE  /\ store' \in [Hrefs -> Card \cup {None}] /\ writes' \in 0..MaxWrites
         /\ GivenOut' /\ Current'
  <1>1. store' \in [Hrefs -> Card \cup {None}] /\ writes' \in 0..MaxWrites
    BY ContactAssumption DEF IInv, TypeOK
  <1>2. /\ writes \in Nat /\ writes' >= writes /\ writes' \in Nat
        /\ \A k \in Card : k.etag \in Nat
        /\ \A a \in Args : a.etag # None => a.etag \in Nat
    BY <1>1, ContactAssumption DEF IInv, TypeOK, Card, Args, Etag
  <1>3. GivenOut'
    <2>1. \A g \in Hrefs : store'[g] # None => store'[g].etag <= writes'
      BY <1>2 DEF IInv, TypeOK, GivenOut
    <2>2. \A c \in Calls : base[c] # None => base[c].etag <= writes'
      BY <1>2 DEF IInv, TypeOK, GivenOut
    <2>3. \A c \in Calls : arg[c] # None /\ arg[c].etag # None => arg[c].etag <= writes'
      BY <1>2 DEF IInv, TypeOK, GivenOut
    <2> QED BY <2>1, <2>2, <2>3 DEF GivenOut
  <1>4. Current'
    <2> SUFFICES ASSUME NEW c \in Calls, pc'[c] = "put", arg[c].tool = "update"
                 PROVE  /\ base[c] # None
                        /\ base[c].uid # NoUid /\ arg[c].uid \in {None, base[c].uid}
                        /\ LET there == store'[arg[c].href]
                           IN  there \notin {None, base[c]} =>
                                 /\ there.etag > base[c].etag
                                 /\ arg[c].etag # None => there.etag > arg[c].etag
      BY DEF Current
    <2>1. /\ pc[c] = "put" /\ arg[c] \in Args /\ arg[c].href \in Hrefs
          /\ base[c] \in Card
      BY DEF IInv, TypeOK, Started, Current, Args
    <2>2. CASE arg[c].href = h
      <3>1. /\ base[c].etag <= writes /\ base[c].etag \in Nat
            /\ arg[c].etag # None => arg[c].etag <= writes
            /\ base[c].uid # NoUid /\ arg[c].uid \in {None, base[c].uid}
        BY <1>2, <2>1, NoneAssumption DEF IInv, GivenOut, Current
      <3>2. store'[arg[c].href] = card
        BY <2>2 DEF IInv, TypeOK
      <3>3. base[c] # None
        BY <2>1, NoneAssumption
      <3>4. ASSUME card # None
            PROVE  card.etag > base[c].etag /\ (arg[c].etag # None => card.etag > arg[c].etag)
        <4>1. card.etag = writes + 1 /\ writes \in Nat
          BY <1>2, <3>4
        <4>2. arg[c].etag # None => arg[c].etag \in Nat
          BY <1>2, <2>1
        <4> QED BY <3>1, <4>1, <4>2
      <3> QED BY <3>1, <3>2, <3>3, <3>4
    <2>3. CASE arg[c].href # h
      BY <2>1, <2>3 DEF IInv, TypeOK, Current
    <2> QED BY <2>2, <2>3
  <1> QED BY <1>1, <1>3, <1>4

\* So does a step that leaves no contact at all.
LEMMA NoVersion ==
  ASSUME IInv, store' = [h \in Hrefs |-> None],
         UNCHANGED <<writes, pc, arg, base, applied>>, book' \in BOOLEAN
  PROVE  IInv'
  <1>1. TypeOK'
    BY DEF IInv, TypeOK
  <1>2. GivenOut' /\ Started'
    BY DEF IInv, GivenOut, Started
  <1>3. Current' /\ NoLostUpdate'
    <2>1. \A c \in Calls : arg[c] # None => arg[c].href \in Hrefs
      BY DEF IInv, TypeOK, Args
    <2> QED BY <2>1 DEF IInv, TypeOK, Started, Current, NoLostUpdate
  <1> QED BY <1>1, <1>2, <1>3 DEF IInv

\* Every step keeps IInv.
LEMMA IInvStep == IInv /\ [Next]_vars => IInv'
  <1> SUFFICES ASSUME IInv, [Next]_vars PROVE IInv'
    OBVIOUS
  <1>1. ASSUME NEW c \in Calls, NEW a \in Args, Call(c, a) PROVE IInv'
    <2>1. TypeOK'
      BY <1>1 DEF IInv, TypeOK, Call, Goto, PC
    <2>2. GivenOut' /\ Started'
      BY <1>1, NoneAssumption DEF IInv, TypeOK, GivenOut, Started, Call, Goto, Args
    <2>3. Current' /\ NoLostUpdate'
      BY <1>1 DEF IInv, TypeOK, Started, Current, NoLostUpdate, Call, Goto
    <2> QED BY <2>1, <2>2, <2>3 DEF IInv
  <1>2. ASSUME NEW c \in Calls, GetContact(c) PROVE IInv'
    <2>1. arg[c] \in Args /\ arg[c].href \in Hrefs
      BY <1>2 DEF IInv, TypeOK, Started, GetContact, Args
    <2>2. TypeOK'
      BY <1>2, <2>1 DEF IInv, TypeOK, GetContact, Goto, PC, Results
    <2>3. GivenOut' /\ Started'
      BY <1>2, <2>1 DEF IInv, TypeOK, GivenOut, Started, GetContact, Goto
    <2>4. Current' /\ NoLostUpdate'
      BY <1>2, <2>1 DEF IInv, TypeOK, Started, Current, NoLostUpdate, GetContact, Goto
    <2> QED BY <2>2, <2>3, <2>4 DEF IInv
  <1>3. ASSUME NEW c \in Calls, ServerWrites(c) PROVE IInv'
    <2>1. CASE Applies(c)
      <3> DEFINE h == arg[c].href
      <3>1. /\ h \in Hrefs /\ pc' = [pc EXCEPT ![c] = "2xx"]
            /\ UNCHANGED <<book, arg, base>>
        BY <1>3, <2>1, Effects
      <3>2. \A d \in Calls : pc'[d] = "put" => pc[d] = "put"
        BY <3>1 DEF IInv, TypeOK
      <3>3. \E card \in Card \cup {None} :
              /\ store' = [store EXCEPT ![h] = card]
              /\ \/ card = None /\ writes' = writes
                 \/ /\ card \in Card /\ card.etag = writes + 1
                    /\ writes' = writes + 1 /\ writes < MaxWrites
        BY <1>3, <2>1, Effects
      <3>4. store' \in [Hrefs -> Card \cup {None}] /\ writes' \in 0..MaxWrites
            /\ GivenOut' /\ Current'
        BY <3>1, <3>2, <3>3, NewVersion
      <3>5. applied' = [applied EXCEPT ![c] = IF store[h] # None THEN store[h].etag ELSE 0]
        BY <1>3, <2>1, Effects
      <3>6. TypeOK'
        BY <3>1, <3>4, <3>5, ContactAssumption
        DEF IInv, TypeOK, PC, Status, Card, Etag
      <3>7. Started'
        BY <1>3, <3>1, <3>5 DEF IInv, TypeOK, Started, ServerWrites
      <3>8. NoLostUpdate'
        <4>1. ASSUME arg[c].tool = "update"
              PROVE  applied'[c] = base[c].etag /\ arg[c].etag \in {None, base[c].etag}
          <5>1. base[c] \in Card /\ store[h] = base[c] /\ arg[c].etag \in {None, base[c].etag}
            BY <1>3, <2>1, <4>1, WritesOnWhatItRead DEF ServerWrites, Applies
          <5> QED BY <3>5, <5>1, NoneAssumption DEF IInv, TypeOK
        <4> QED BY <3>1, <3>5, <4>1 DEF IInv, TypeOK, NoLostUpdate
      <3> QED BY <3>4, <3>6, <3>7, <3>8 DEF IInv
    <2>2. ASSUME NEW l \in Status, pc[c] = "put", Goto(c, l),
                 UNCHANGED <<book, store, writes, arg, base, applied>>
          PROVE  IInv'
      <3>1. TypeOK'
        BY <2>2 DEF IInv, TypeOK, Goto, PC
      <3>2. GivenOut' /\ Started'
        BY <2>2 DEF IInv, TypeOK, GivenOut, Started, Goto, Status
      <3>3. Current' /\ NoLostUpdate'
        BY <2>2 DEF IInv, TypeOK, Current, NoLostUpdate, Goto, Status
      <3> QED BY <3>1, <3>2, <3>3 DEF IInv
    <2> QED BY <1>3, <2>1, <2>2 DEF ServerWrites, Refusals, Status
  <1>4. ASSUME NEW c \in Calls, ServerRefuses(c) \/ ReplyArrives(c) \/ ReplyLost(c)
        PROVE  IInv'
    <2>1. PICK l \in Results : pc[c] # "idle" /\ pc' = [pc EXCEPT ![c] = l]
      BY <1>4 DEF ServerRefuses, ReplyArrives, ReplyLost, ResultOf, Status, Results, Goto
    <2>2. UNCHANGED <<book, store, writes, arg, base, applied>>
      BY <1>4 DEF ServerRefuses, ReplyArrives, ReplyLost
    <2>3. TypeOK'
      BY <2>1, <2>2 DEF IInv, TypeOK, PC
    <2>4. GivenOut' /\ Started'
      BY <2>1, <2>2 DEF IInv, TypeOK, GivenOut, Started, Results
    <2>5. Current' /\ NoLostUpdate'
      BY <2>1, <2>2 DEF IInv, TypeOK, Current, NoLostUpdate, Results
    <2> QED BY <2>3, <2>4, <2>5 DEF IInv
  <1>5. ASSUME NEW h \in Hrefs,
               \/ ForeignEdit(h) \/ ForeignDelete(h)
               \/ \E u \in Uids \cup {NoUid} : ForeignCreate(h, u)
        PROVE  IInv'
    <2>1. UNCHANGED <<book, pc, arg, base, applied>>
      BY <1>5 DEF ForeignEdit, ForeignDelete, ForeignCreate
    <2>2. writes \in 0..MaxWrites /\ (writes < MaxWrites => writes + 1 \in Etag)
      BY ContactAssumption DEF IInv, TypeOK, Etag
    <2>3. \E card \in Card \cup {None} :
            /\ store' = [store EXCEPT ![h] = card]
            /\ \/ card = None /\ writes' = writes
               \/ /\ card \in Card /\ card.etag = writes + 1
                  /\ writes' = writes + 1 /\ writes < MaxWrites
      <3>1. CASE ForeignEdit(h)
        <4>1. store[h] \in Card
          BY <3>1 DEF IInv, TypeOK, ForeignEdit, Exists
        <4>2. [store[h] EXCEPT !.etag = writes + 1] \in Card
          BY <2>2, <3>1, <4>1 DEF Card, ForeignEdit
        <4>3. [store[h] EXCEPT !.etag = writes + 1].etag = writes + 1
          BY <4>1 DEF Card
        <4> QED BY <3>1, <4>2, <4>3 DEF ForeignEdit
      <3>2. CASE ForeignDelete(h)
        BY <3>2 DEF ForeignDelete
      <3>3. ASSUME NEW u \in Uids \cup {NoUid}, ForeignCreate(h, u)
            PROVE  \E card \in Card \cup {None} :
                     /\ store' = [store EXCEPT ![h] = card]
                     /\ card \in Card /\ card.etag = writes + 1
                     /\ writes' = writes + 1 /\ writes < MaxWrites
        BY <2>2, <3>3 DEF ForeignCreate, Card
      <3> QED BY <1>5, <3>1, <3>2, <3>3
    <2>4. store' \in [Hrefs -> Card \cup {None}] /\ writes' \in 0..MaxWrites
          /\ GivenOut' /\ Current'
      BY <2>1, <2>3, NewVersion
    <2>5. TypeOK' /\ Started' /\ NoLostUpdate'
      BY <2>1, <2>4 DEF IInv, TypeOK, Started, NoLostUpdate
    <2> QED BY <2>4, <2>5 DEF IInv
  <1>6. ASSUME ForeignBook PROVE IInv'
    BY <1>6, NoVersion DEF ForeignBook, IInv, TypeOK
  <1>7. CASE UNCHANGED vars
    BY <1>7 DEF vars, IInv, TypeOK, GivenOut, Started, Current, NoLostUpdate
  <1> QED BY <1>1, <1>2, <1>3, <1>4, <1>5, <1>6, <1>7 DEF Next

\* IInv is an invariant.
LEMMA Invariance == Spec => []IInv
  BY IInvInit, IInvStep, PTL DEF Spec

\* The variables keep their types.
THEOREM TypeCorrect == Spec => []TypeOK
  <1>1. IInv => TypeOK
    BY DEF IInv
  <1> QED BY <1>1, Invariance, PTL

\* update_contact replaces the version it read, whatever happens meanwhile.
THEOREM NoUpdateIsLost == Spec => []NoLostUpdate
  <1>1. IInv => NoLostUpdate
    BY DEF IInv
  <1> QED BY <1>1, Invariance, PTL
-----------------------------------------------------------------------------
\* How a step of a call looks from outside.
LEMMA Becoming ==
  ASSUME TypeOK, NEW c \in Calls, NEW l, Goto(c, l)
  PROVE  Promise!Becomes(c, Outside(l)) /\ phase[c] = Outside(pc[c])
  BY DEF TypeOK, Goto, phase, Promise!Becomes

\* A call is one atomic step of the contact store, at its PUT or DELETE, or
\* none; its GET, its answers and the writes of others are steps of their own.
LEMMA StepRefines == IInv /\ IInv' /\ [Next]_vars => [Promise!Next]_(Promise!vars)
  <1> SUFFICES ASSUME IInv, IInv', [Next]_vars
               PROVE  Promise!Next \/ UNCHANGED Promise!vars
    BY DEF Promise!vars
  <1>1. ASSUME NEW c \in Calls, NEW a \in Args, Call(c, a) PROVE Promise!Begin(c, a)
    <2>1. phase[c] = "idle" /\ Promise!Becomes(c, "open")
      BY <1>1, Becoming DEF IInv, Call, Outside
    <2> QED BY <1>1, <2>1 DEF Call, Promise!Begin
  <1>2. ASSUME NEW c \in Calls, GetContact(c) PROVE Promise!Look(c)
    <2>1. arg[c].tool = "update" /\ phase[c] = "open"
      BY <1>2 DEF IInv, Started, GetContact, phase, Outside
    <2>2. ASSUME NEW l \in {"not_found", "invalid"}, Goto(c, l)
          PROVE  Promise!Becomes(c, l)
      BY <2>2, Becoming DEF IInv, Outside
    <2>3. ASSUME Goto(c, "put") PROVE phase' = phase
      BY <1>2, <2>3 DEF IInv, TypeOK, GetContact, Goto, phase, Outside
    <2> QED BY <1>2, <2>1, <2>2, <2>3 DEF GetContact, Promise!Look
  <1>3. ASSUME NEW c \in Calls, ServerWrites(c)
        PROVE  Promise!TakeEffect(c) \/ Promise!Missing(c) \/ Promise!Changed(c)
    <2> DEFINE h == arg[c].href
    <2>1. /\ arg[c] \in Args /\ h \in Hrefs /\ pc[c] = "put" /\ phase[c] = "open"
          /\ UNCHANGED <<book, arg, base>>
      BY <1>3 DEF IInv, TypeOK, Started, ServerWrites, Args, phase, Outside
    <2>2. arg[c].tool \in {"create", "update", "delete"}
      BY <2>1 DEF Args
    <2>3. CASE Applies(c)
      <3>1. Goto(c, "2xx") /\ Precondition(c) /\ ~Blocked(c)
        BY <2>3 DEF Applies
      <3>2. Promise!Becomes(c, "effect")
        BY <3>1, Becoming DEF IInv, Outside
      <3>3. arg[c].tool # "delete" => Promise!Put(h, Written(c).uid)
        BY <2>3 DEF Applies, Promise!Put, Written
      <3>4. CASE arg[c].tool = "create"
        BY <2>1, <3>1, <3>2, <3>3, <3>4
        DEF Precondition, Blocked, Taken, Exists, Written,
            Promise!TakeEffect, Promise!Free, Promise!Taken
      <3>5. CASE arg[c].tool = "update"
        <4>1. /\ store[h] = base[c] /\ base[c] \in Card
              /\ arg[c].etag \in {None, base[c].etag}
              /\ arg[c].uid \in {None, base[c].uid}
          BY <2>1, <3>1, <3>5, WritesOnWhatItRead
        <4>2. Promise!Put(h, store[h].uid)
          BY <3>3, <3>5, <4>1 DEF Written
        <4> QED BY <2>1, <3>2, <3>5, <4>1, <4>2, NoneAssumption
                DEF Promise!TakeEffect, Promise!AsNamed
      <3>6. CASE arg[c].tool = "delete"
        <4>1. store[h] # None /\ Promise!AsNamed(arg[c])
          BY <3>1, <3>6 DEF Precondition, Exists, IfMatch, Promise!AsNamed
        <4>2. Promise!Remove(h)
          BY <2>3, <3>6 DEF Applies, Promise!Remove
        <4> QED BY <2>1, <3>2, <3>6, <4>1, <4>2 DEF Promise!TakeEffect
      <3> QED BY <2>2, <3>4, <3>5, <3>6
    <2>4. ASSUME NEW l \in Refusals(c), Goto(c, l), UNCHANGED <<store, writes>>
          PROVE  Promise!Missing(c) \/ Promise!Changed(c)
      <3>1. CASE l = "404"
        <4>1. Promise!Becomes(c, "missing")
          BY <2>4, <3>1, Becoming DEF IInv, Outside
        <4> QED BY <2>1, <2>4, <3>1, <4>1 DEF Refusals, Exists, Promise!Missing
      <3>2. CASE l = "409"
        <4>1. Promise!Becomes(c, "changed")
          BY <2>4, <3>2, Becoming DEF IInv, Outside
        <4>2. Blocked(c)
          BY <2>4, <3>2 DEF Refusals
        <4> QED BY <2>1, <2>2, <2>4, <4>1, <4>2
                DEF Blocked, Taken, Exists, Promise!Changed, Promise!Free, Promise!Taken
      <3>3. CASE l = "412"
        <4>1. Promise!Becomes(c, "changed")
          BY <2>4, <3>3, Becoming DEF IInv, Outside
        <4>2. ~Precondition(c)
          BY <2>4, <3>3 DEF Refusals
        <4>3. CASE arg[c].tool = "create"
          BY <2>1, <2>4, <4>1, <4>2, <4>3 DEF Precondition, Exists, Promise!Changed
        <4>4. CASE arg[c].tool = "delete"
          BY <2>1, <2>4, <4>1, <4>2, <4>4
          DEF Precondition, Exists, IfMatch, Promise!AsNamed, Promise!Changed
        <4>5. CASE arg[c].tool = "update"
          BY <2>1, <2>4, <4>1, <4>2, <4>5
          DEF Precondition, Exists, IfMatch, Promise!AsNamed, Promise!Changed
        <4> QED BY <2>2, <4>3, <4>4, <4>5
      <3> QED BY <2>4, <3>1, <3>2, <3>3 DEF Refusals
    <2> QED BY <1>3, <2>3, <2>4 DEF ServerWrites
  <1>4. ASSUME NEW c \in Calls, ServerRefuses(c) \/ ReplyArrives(c) \/ ReplyLost(c)
        PROVE  Promise!Tell(c)
    <2>1. PICK l \in Results :
            /\ Goto(c, l)
            /\ \/ pc[c] \in {"get", "put"} /\ l \in {"auth_expired", "failed"}
               \/ pc[c] = "2xx" /\ l \in {"ok", "failed"}
               \/ pc[c] = "404" /\ l \in {"not_found", "failed"}
               \/ pc[c] \in {"409", "412"} /\ l \in {"conflict", "failed"}
      BY <1>4 DEF ServerRefuses, ReplyArrives, ReplyLost, ResultOf, Status, Results
    <2>2. Promise!Becomes(c, l) /\ phase[c] = Outside(pc[c])
      BY <2>1, Becoming DEF IInv, Outside
    <2>3. phase[c] \in {"open", "effect", "missing", "changed"}
          /\ l \in Promise!Answers(phase[c])
      BY <2>1, <2>2 DEF Outside, Promise!Answers
    <2> QED BY <1>4, <2>2, <2>3
            DEF ServerRefuses, ReplyArrives, ReplyLost, Promise!Tell
  <1>5. ASSUME NEW h \in Hrefs,
               \/ ForeignEdit(h) \/ ForeignDelete(h)
               \/ \E u \in Uids \cup {NoUid} : ForeignCreate(h, u)
        PROVE  Promise!OthersWrite(h)
    <2>1. UNCHANGED <<book, arg, base, phase>>
      BY <1>5 DEF ForeignEdit, ForeignDelete, ForeignCreate, phase
    <2>2. CASE ForeignEdit(h)
      <3>1. store[h] \in Card /\ store[h] # None
        BY <2>2 DEF IInv, TypeOK, ForeignEdit, Exists
      <3>2. [store[h] EXCEPT !.etag = writes + 1]
              = [uid |-> store[h].uid, etag |-> writes + 1, other |-> store[h].other]
            /\ store[h].other \in BOOLEAN
        BY <3>1 DEF Card
      <3>3. Promise!Put(h, store[h].uid)
        BY <2>2, <3>2 DEF ForeignEdit, Promise!Put
      <3> QED BY <2>1, <3>1, <3>3 DEF Promise!OthersWrite
    <2>3. CASE ForeignDelete(h)
      BY <2>1, <2>3 DEF ForeignDelete, Exists, Promise!OthersWrite, Promise!Remove
    <2>4. ASSUME NEW u \in Uids \cup {NoUid}, ForeignCreate(h, u)
          PROVE  Promise!OthersWrite(h)
      BY <2>1, <2>4 DEF ForeignCreate, Exists, Taken, Promise!OthersWrite,
                        Promise!Put, Promise!Free, Promise!Taken
    <2> QED BY <1>5, <2>2, <2>3, <2>4
  <1>6. ASSUME ForeignBook PROVE Promise!OthersMoveBook
    BY <1>6 DEF ForeignBook, phase, Promise!OthersMoveBook
  <1>7. CASE UNCHANGED vars
    BY <1>7 DEF vars, phase, Promise!vars
  <1>8. Args = Promise!Args
    BY DEF Args, Etag, Promise!Args
  <1>9. ASSUME NEW c \in Calls, NEW a \in Args, Call(c, a)
        PROVE  arg'[c] \in Promise!Args /\ Promise!Begin(c, arg'[c])
    <2>1. arg'[c] = a
      BY <1>9 DEF IInv, TypeOK, Call
    <2> QED BY <1>1, <1>8, <1>9, <2>1
  <1> QED BY <1>2, <1>3, <1>4, <1>5, <1>6, <1>7, <1>9 DEF Next, Promise!Next

\* The write tools keep the promise of ContactStore: each call takes effect
\* at most once, at one moment, and its answer is true of that.
THEOREM WritesAreAtomic == Spec => AtomicWrites
  <1>1. Init => Promise!Init
    BY DEF Init, Promise!Init, phase, Outside
  <1> QED BY <1>1, StepRefines, Invariance, PTL DEF Spec, AtomicWrites, Promise!Spec
=============================================================================
