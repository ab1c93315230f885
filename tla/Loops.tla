------------------------------- MODULE Loops --------------------------------
(***************************************************************************)
(* Loops over a sequence, for any body: an instance of this module makes   *)
(* its lemmas available for one.  Inductions go by the least number that   *)
(* would not be reached.                                                   *)
(***************************************************************************)
EXTENDS Integers, Sequences, SequenceTheorems, WellFoundedInduction, TLAPS

CONSTANT Step(_, _, _)   \* the body: a parameter, the state before, an element

\* What the loop has after its last step.
Loop(p, start, s) ==
  LET after[n \in 0..Len(s)] == IF n = 0 THEN start ELSE Step(p, after[n - 1], s[n])
  IN  after[Len(s)]

\* Every set of natural numbers with an element has a least one.
LEMMA LeastOf ==
  ASSUME NEW T \in SUBSET Nat, T # {}
  PROVE  \E n \in T : \A m \in T : n <= m
<1>1. IsWellFoundedOn(OpToRel(<, Nat), Nat)
  BY NatLessThanWellFounded
<1>2. PICK n \in T : \A m \in T : ~ (<<m, n>> \in OpToRel(<, Nat))
  BY <1>1, WFMin, Zenon
<1>3. \A m \in T : <<m, n>> \in OpToRel(<, Nat) <=> m < n
  BY DEF OpToRel
<1>4. \A m \in T : ~ (m < n)
  BY <1>2, <1>3, Zenon
<1> QED BY <1>4

\* Induction up to a number, on the set of those that have been reached.
LEMMA AllReached ==
  ASSUME NEW N \in Nat, NEW S, 0 \in S, \A n \in 0..(N - 1) : n \in S => n + 1 \in S
  PROVE  \A n \in 0..N : n \in S
<1>1. SUFFICES ASSUME NEW k \in 0..N, k \notin S
               PROVE  FALSE
  OBVIOUS
<1> DEFINE left == {n \in 0..N : n \notin S}
<1>2. PICK n \in left : \A m \in left : n <= m
  <2>1. left \in SUBSET Nat /\ left # {}
    BY <1>1
  <2> HIDE DEF left
  <2> QED BY <2>1, LeastOf
<1>3. n # 0 /\ n - 1 \in 0..(N - 1)
  BY <1>2
<1>4. n - 1 \in S
  BY <1>2, <1>3
<1> QED BY <1>2, <1>3, <1>4

\* Induction on the sequences that have been built, an element at a time.
LEMMA AllBuilt ==
  ASSUME NEW T, NEW S, <<>> \in S,
         \A s \in Seq(T) : \A c \in T : s \in S => Append(s, c) \in S
  PROVE  \A s \in Seq(T) : s \in S
<1>1. SUFFICES ASSUME NEW t \in Seq(T)
               PROVE  t \in S
  OBVIOUS
<1> DEFINE R == {n \in 0..Len(t) : SubSeq(t, 1, n) \in S}
<1>2. Len(t) \in Nat /\ \A i \in 1..Len(t) : t[i] \in T
  OBVIOUS
<1>3. 0 \in R
  <2>1. SubSeq(t, 1, 0) = <<>>
    BY SubSeqEmpty
  <2>2. 0 \in 0..Len(t)
    BY <1>2
  <2> QED BY <2>1, <2>2, Zenon
<1>4. ASSUME NEW n \in 0..(Len(t) - 1), n \in R
      PROVE  n + 1 \in R
  <2>1. n + 1 \in 1..Len(t) /\ SubSeq(t, 1, n) \in Seq(T)
    BY <1>2
  <2>2. SubSeq(t, 1, n + 1) = Append(SubSeq(t, 1, n), t[n + 1])
    BY <1>2, <2>1
  <2>3. SubSeq(t, 1, n) \in S /\ t[n + 1] \in T
    BY <1>2, <1>4, <2>1
  <2>4. Append(SubSeq(t, 1, n), t[n + 1]) \in S
    BY <2>1, <2>3
  <2>5. n + 1 \in 0..Len(t)
    BY <1>2
  <2>6. SubSeq(t, 1, n + 1) \in S
    BY <2>2, <2>4
  <2> QED BY <2>5, <2>6
<1>5. Len(t) \in R
  <2> HIDE DEF R
  <2>1. \A n \in 0..Len(t) : n \in R
    BY <1>2, <1>3, <1>4, AllReached
  <2>2. Len(t) \in 0..Len(t)
    BY <1>2
  <2> QED BY <2>1, <2>2
<1>6. SubSeq(t, 1, Len(t)) = t
  BY SubSeqFull
<1> QED BY <1>5, <1>6

\* Two functions that agree at first and after each step agree at last.
LEMMA AgreeAtLast ==
  ASSUME NEW N \in Nat, NEW f, NEW g, f[0] = g[0],
         \A n \in 1..N : f[n - 1] = g[n - 1] => f[n] = g[n]
  PROVE  f[N] = g[N]
<1> DEFINE S == {n \in 0..N : f[n] = g[n]}
<1>1. 0 \in S
  OBVIOUS
<1>2. ASSUME NEW n \in 0..(N - 1), n \in S
      PROVE  n + 1 \in S
  <2>1. n + 1 \in 1..N /\ (n + 1) - 1 = n
    OBVIOUS
  <2> QED BY <1>2, <2>1
<1>3. N \in S
  <2> HIDE DEF S
  <2> QED BY <1>1, <1>2, AllReached
<1> QED BY <1>3

\* The states of a loop, from its start on.
States(p, start, s, f) ==
  f = [n \in 0..Len(s) |-> IF n = 0 THEN start ELSE Step(p, f[n - 1], s[n])]

\* The states of a loop that goes one step further.
LEMMA StatesGrow ==
  ASSUME NEW T, NEW s \in Seq(T), NEW c \in T, NEW p, NEW start, NEW f,
         States(p, start, s, f)
  PROVE  \E g : States(p, start, Append(s, c), g)
<1> DEFINE N == Len(s)
           t == Append(s, c)
           g == [n \in 0..(N + 1) |-> IF n = N + 1 THEN Step(p, f[N], c) ELSE f[n]]
           next(n) == IF n = 0 THEN start ELSE Step(p, g[n - 1], t[n])
<1>1. N \in Nat /\ Len(t) = N + 1 /\ t[N + 1] = c /\ \A n \in 1..N : t[n] = s[n]
  OBVIOUS
<1>2. ASSUME NEW n \in 0..(N + 1)
      PROVE  g[n] = next(n)
  <2>1. CASE n = N + 1
    <3>1. N \in 0..(N + 1) /\ N # N + 1 /\ n - 1 = N /\ n # 0
      BY <1>1, <2>1
    <3>2. g[n] = Step(p, f[N], c) /\ g[n - 1] = f[N] /\ t[n] = c
      BY <1>1, <2>1, <3>1
    <3> QED BY <3>1, <3>2
  <2>2. CASE n = 0
    BY <1>1, <2>2 DEF States
  <2>3. CASE n # N + 1 /\ n # 0
    <3>1. n \in 1..N /\ n - 1 \in 0..N
      <4> HIDE DEF N, g, t
      <4> QED BY <1>1, <2>3
    <3>2. f[n] = Step(p, f[n - 1], s[n])
      <4>1. n \in 0..Len(s) /\ n # 0
        BY <1>1, <2>3, <3>1
      <4> QED BY <4>1 DEF States
    <3>3. g[n] = f[n] /\ g[n - 1] = f[n - 1] /\ t[n] = s[n]
      BY <1>1, <3>1
    <3> HIDE DEF g, t
    <3> QED BY <2>3, <3>2, <3>3
  <2> QED BY <2>1, <2>2, <2>3
<1>3. g = [n \in 0..(N + 1) |-> g[n]]
  OBVIOUS
<1> HIDE DEF g
<1>4. g = [n \in 0..Len(t) |-> next(n)]
  <2> HIDE DEF next, t
  <2> QED BY <1>1, <1>2, <1>3, Zenon
<1>5. States(p, start, t, g)
  BY <1>4, Zenon DEF States
<1> QED BY <1>5

\* A loop has states, and the last one is what it returns.
LEMMA LoopHasStates ==
  ASSUME NEW T, NEW s \in Seq(T), NEW p, NEW start
  PROVE  \E f : States(p, start, s, f) /\ Loop(p, start, s) = f[Len(s)]
<1> DEFINE S == {t \in Seq(T) : \E f : States(p, start, t, f)}
<1>1. <<>> \in S
  <2> DEFINE f == [n \in 0..0 |-> start]
  <2>1. Len(<<>>) = 0 /\ <<>> \in Seq(T)
    OBVIOUS
  <2>2. f = [n \in 0..0 |-> IF n = 0 THEN start ELSE Step(p, f[n - 1], <<>>[n])]
    OBVIOUS
  <2> HIDE DEF f
  <2>3. States(p, start, <<>>, f)
    BY <2>1, <2>2 DEF States
  <2> QED BY <2>1, <2>3
<1>2. ASSUME NEW t \in Seq(T), NEW c \in T, t \in S
      PROVE  Append(t, c) \in S
  <2>1. \E g : States(p, start, Append(t, c), g)
    BY <1>2, StatesGrow
  <2>2. Append(t, c) \in Seq(T)
    OBVIOUS
  <2> QED BY <2>1, <2>2
<1>3. s \in S
  <2> HIDE DEF S
  <2> QED BY <1>1, <1>2, AllBuilt
<1> DEFINE last == CHOOSE f : States(p, start, s, f)
<1>4. Loop(p, start, s) = last[Len(s)]
  BY Zenon DEF Loop, States
<1>5. States(p, start, s, last)
  BY <1>3
<1> QED BY <1>4, <1>5

\* A loop over nothing stays where it is.
LEMMA LoopStarts ==
  ASSUME NEW p, NEW start
  PROVE  Loop(p, start, <<>>) = start
<1>1. <<>> \in Seq({}) /\ Len(<<>>) = 0
  OBVIOUS
<1>2. PICK f : States(p, start, <<>>, f) /\ Loop(p, start, <<>>) = f[0]
  BY <1>1, LoopHasStates
<1> QED BY <1>1, <1>2 DEF States

\* One over a longer sequence takes a step more.
LEMMA LoopUnrolls ==
  ASSUME NEW T, NEW p, NEW start, NEW s \in Seq(T), NEW c \in T
  PROVE  Loop(p, start, Append(s, c)) = Step(p, Loop(p, start, s), c)
<1> DEFINE N == Len(s)
           t == Append(s, c)
<1>1. /\ N \in Nat /\ Len(t) = N + 1 /\ t \in Seq(T) /\ t[N + 1] = c
      /\ \A n \in 1..N : t[n] = s[n]
  OBVIOUS
<1>2. PICK f : States(p, start, s, f) /\ Loop(p, start, s) = f[N]
  BY LoopHasStates
<1>3. PICK g : States(p, start, t, g) /\ Loop(p, start, t) = g[Len(t)]
  BY <1>1, LoopHasStates
<1> HIDE DEF t
<1>4. f[0] = start /\ \A n \in 1..N : f[n] = Step(p, f[n - 1], s[n])
  BY <1>1, <1>2 DEF States
<1>5. g[0] = start /\ \A n \in 1..(N + 1) : g[n] = Step(p, g[n - 1], t[n])
  <2>1. g = [n \in 0..(N + 1) |-> IF n = 0 THEN start ELSE Step(p, g[n - 1], t[n])]
    BY <1>1, <1>3 DEF States
  <2> HIDE DEF N
  <2> QED BY <1>1, <2>1
<1>6. f[N] = g[N]
  <2>1. \A n \in 1..N : f[n - 1] = g[n - 1] => f[n] = g[n]
    BY <1>1, <1>4, <1>5
  <2> HIDE DEF N
  <2> QED BY <1>1, <1>4, <1>5, <2>1, AgreeAtLast
<1>7. g[N + 1] = Step(p, g[N], c)
  BY <1>1, <1>5
<1> QED BY <1>1, <1>2, <1>3, <1>6, <1>7 DEF t

\* A loop stays where each of its steps stays.
LEMMA LoopStays ==
  ASSUME NEW T, NEW p, NEW A, NEW start \in A,
         \A a \in A : \A c \in T : Step(p, a, c) \in A
  PROVE  \A s \in Seq(T) : Loop(p, start, s) \in A
<1> DEFINE S == {s \in Seq(T) : Loop(p, start, s) \in A}
<1>1. <<>> \in S
  <2>1. <<>> \in Seq(T)
    OBVIOUS
  <2> QED BY <2>1, LoopStarts
<1>2. ASSUME NEW s \in Seq(T), NEW c \in T, s \in S
      PROVE  Append(s, c) \in S
  <2>1. Append(s, c) \in Seq(T)
    OBVIOUS
  <2>2. Loop(p, start, Append(s, c)) = Step(p, Loop(p, start, s), c)
    BY LoopUnrolls
  <2> QED BY <1>2, <2>1, <2>2
<1>3. \A s \in Seq(T) : s \in S
  <2> HIDE DEF S
  <2> QED BY <1>1, <1>2, AllBuilt
<1> QED BY <1>3

\* A loop over one sequence and then another.
LEMMA LoopGoesOn ==
  ASSUME NEW T, NEW p, NEW start, NEW s \in Seq(T)
  PROVE  \A t \in Seq(T) : Loop(p, start, s \o t) = Loop(p, Loop(p, start, s), t)
<1> DEFINE S == {t \in Seq(T) : Loop(p, start, s \o t) = Loop(p, Loop(p, start, s), t)}
<1>1. <<>> \in S
  <2>1. <<>> \in Seq(T) /\ s \o <<>> = s
    OBVIOUS
  <2>2. Loop(p, Loop(p, start, s), <<>>) = Loop(p, start, s)
    BY LoopStarts
  <2> QED BY <2>1, <2>2
<1>2. ASSUME NEW t \in Seq(T), NEW c \in T, t \in S
      PROVE  Append(t, c) \in S
  <2> DEFINE u == s \o t
  <2>1. Append(t, c) \in Seq(T) /\ u \in Seq(T)
    OBVIOUS
  <2>2. s \o Append(t, c) = Append(u, c)
    OBVIOUS
  <2>3. Loop(p, start, Append(u, c)) = Step(p, Loop(p, start, u), c)
    <3> HIDE DEF u
    <3> QED BY <2>1, LoopUnrolls
  <2>4. Loop(p, Loop(p, start, s), Append(t, c)) = Step(p, Loop(p, Loop(p, start, s), t), c)
    BY LoopUnrolls
  <2>5. Loop(p, start, s \o t) = Loop(p, Loop(p, start, s), t)
    BY <1>2
  <2>6. Loop(p, start, s \o Append(t, c)) = Loop(p, Loop(p, start, s), Append(t, c))
    BY <2>2, <2>3, <2>4, <2>5, Zenon
  <2> QED BY <2>1, <2>6
<1>3. \A t \in Seq(T) : t \in S
  <2> HIDE DEF S
  <2> QED BY <1>1, <1>2, AllBuilt
<1> QED BY <1>3
=============================================================================
