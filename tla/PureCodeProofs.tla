--------------------------- MODULE PureCodeProofs ---------------------------
(***************************************************************************)
(* What the functions of PureCode answer, for every argument: the          *)
(* responses read of a document, for every one; the allow-list of redirect *)
(* URIs, for every list and URI; the resource asked of Logto and the       *)
(* audiences accepted, for every environment and request; the list of      *)
(* upcoming birthdays, for every address book, day and window; and the     *)
(* card that is written and read back, for every contact.  An induction    *)
(* goes by the least number that it would not reach (LeastOf, AllReached); *)
(* one along a loop of VCardText or Multistatus is in Loops, of which      *)
(* every loop is an instance.                                              *)
(***************************************************************************)
EXTENDS PureCode, WellFoundedInduction, FiniteSetTheorems, SequenceTheorems, TLAPS

\* Every set of natural numbers with an element has a least one.
LEMMA LeastOf ==
  ASSUME NEW T \in SUBSET Nat, T # {}
  PROVE  \E n \in T : \A m \in T : n <= m
<1>1. IsWellFoundedOn(OpToRel(<, Nat), Nat)
  BY NatLessThanWellFounded
<1>2. PICK n \in T : \A m \in T : ~ (<<m, n>> \in OpToRel(<, Nat))
  BY <1>1, WFMin, Zenon
<1>3. \A m \in T : <<m, n>> \in OpToRel(<, Nat) <=> m < n
  BY DEF OpToRel
<1>4. \A m \in T : ~ (m < n)
  BY <1>2, <1>3, Zenon
<1> QED BY <1>4

\* A bounded one has a greatest, which is the Max of the library.
LEMMA GreatestOf ==
  ASSUME NEW n \in Nat, NEW T \in SUBSET (0..n), T # {}
  PROVE  Max(T) \in T /\ \A m \in T : m <= Max(T)
<1> DEFINE below == {k \in Nat : n - k \in T}
<1>1. below # {}
  <2>1. PICK m \in T : TRUE
    OBVIOUS
  <2>2. n - m \in Nat /\ n - (n - m) \in T
    BY <2>1
  <2> QED BY <2>2
<1>2. PICK k \in below : \A j \in below : k <= j
  BY <1>1, LeastOf
<1>3. \A m \in T : n - m \in below
  OBVIOUS
<1>4. n - k \in T /\ \A m \in T : m <= n - k
  BY <1>2, <1>3
<1> QED BY <1>4 DEF Max

\* Induction up to a number, on the set of those that have been reached.
LEMMA AllReached ==
  ASSUME NEW N \in Nat, NEW S, 0 \in S, \A n \in 0..(N - 1) : n \in S => n + 1 \in S
  PROVE  \A n \in 0..N : n \in S
<1>1. SUFFICES ASSUME NEW k \in 0..N, k \notin S
               PROVE  FALSE
  OBVIOUS
<1> DEFINE left == {n \in 0..N : n \notin S}
<1>2. PICK n \in left : \A m \in left : n <= m
  <2>1. left \in SUBSET Nat /\ left # {}
    BY <1>1
  <2> HIDE DEF left
  <2> QED BY <2>1, LeastOf
<1>3. n # 0 /\ n - 1 \in 0..(N - 1)
  BY <1>2
<1>4. n - 1 \in S
  BY <1>2, <1>3
<1> QED BY <1>2, <1>3, <1>4

\* A sequence that agrees with one of its elements fewer.
LEMMA LongerByOne ==
  ASSUME NEW n \in Nat, NEW T, NEW F \in [1..n -> T], NEW G \in [1..(n + 1) -> T],
         \A i \in 1..n : G[i] = F[i]
  PROVE  G = Append(F, G[n + 1])
<1> DEFINE H == Append(F, G[n + 1])
<1>1. G \in [1..(n + 1) -> T] /\ F \in [1..n -> T] /\ G[n + 1] \in T
  OBVIOUS
<1>2. G \in Seq(T) /\ Len(G) = n + 1 /\ F \in Seq(T) /\ Len(F) = n
  BY <1>1
<1>3. H \in Seq(T) /\ Len(H) = n + 1
  BY <1>1, <1>2, AppendProperties
<1>4. H[n + 1] = G[n + 1] /\ \A i \in 1..n : H[i] = F[i]
  BY <1>1, <1>2, AppendProperties
<1> HIDE DEF H
<1>5. ASSUME NEW i \in 1..(n + 1)
      PROVE  G[i] = H[i]
  <2>1. i = n + 1 \/ i \in 1..n
    OBVIOUS
  <2> QED BY <1>4, <2>1
<1>6. G = H
  BY <1>2, <1>3, <1>5, SeqEqual
<1> QED BY <1>6 DEF H
-----------------------------------------------------------------------------
\* parse_multistatus's loop.
HandleOn(p, s, e) == Handle(s, e)
Handling == INSTANCE Loops WITH Step <- HandleOn
Read(s, events) == Handling!Loop(0, s, events)

\* Names of elements, and texts.
Names == STRING \cup
         {"multistatus", "response", "href", "propstat", "prop", "status", "addressbook", "x"}
Event == [kind : {"start", "end", "empty", "text"}, name : Names]
EndOfResponse == [kind |-> "end", name |-> "response"]
Undecodable == [kind |-> "text", name |-> "undecodable"]
Inner == Event \ {EndOfResponse}

IsState(s) ==
  s = [stack |-> s.stack, current |-> s.current, capture |-> s.capture,
       output |-> s.output, failed |-> s.failed]

\* Events are handled one by one.
LEMMA ReadFollows ==
  /\ \A events : ParseMultistatus(events) =
       LET s == Read(Begin, events) IN IF s.failed THEN {} ELSE {s.output}
  /\ \A s : Read(s, <<>>) = s
  /\ \A s : \A a \in Seq(Event) : \A e \in Event :
       Read(s, Append(a, e)) = Handle(Read(s, a), e)
  /\ \A s : \A a, b \in Seq(Event) : Read(s, a \o b) = Read(Read(s, a), b)
<1>1. \A events : ParseMultistatus(events) =
        LET s == Read(Begin, events) IN IF s.failed THEN {} ELSE {s.output}
  BY Zenon DEF ParseMultistatus, Run, Read, Handling!Loop, HandleOn
<1>2. \A s : Read(s, <<>>) = s
  BY Handling!LoopStarts, Zenon DEF Read
<1>3. ASSUME NEW s, NEW a \in Seq(Event), NEW e \in Event
      PROVE  Read(s, Append(a, e)) = Handle(Read(s, a), e)
  BY Handling!LoopUnrolls DEF Read, HandleOn
<1>4. ASSUME NEW s, NEW a \in Seq(Event), NEW b \in Seq(Event)
      PROVE  Read(s, a \o b) = Read(Read(s, a), b)
  BY Handling!LoopGoesOn DEF Read
<1> QED BY <1>1, <1>2, <1>3, <1>4, Zenon

\* What no event does.
LEMMA HandleKeeps ==
  ASSUME NEW s, IsState(s), NEW e \in Event
  PROVE  /\ IsState(Handle(s, e))
         /\ e # EndOfResponse => Handle(s, e).output = s.output
         /\ e # Undecodable => Handle(s, e).failed = s.failed
<1>1. CASE s.failed
  BY <1>1 DEF Handle
<1> SUFFICES ASSUME ~s.failed
             PROVE  /\ IsState(Handle(s, e))
                    /\ e # EndOfResponse => Handle(s, e).output = s.output
                    /\ e # Undecodable => Handle(s, e).failed = s.failed
  BY <1>1, Zenon
<1>2. e = [kind |-> e.kind, name |-> e.name] /\ e.kind \in {"start", "end", "empty", "text"}
  BY DEF Event
<1>3. CASE e.kind = "start"
  <2>1. Handle(s, e) = Start(s, e.name)
    BY <1>3 DEF Handle
  <2> QED BY <2>1 DEF Start, IsState
<1>4. CASE e.kind = "empty"
  <2>1. Handle(s, e) = Empty(s, e.name)
    BY <1>4 DEF Handle
  <2> QED BY <2>1 DEF Empty, IsState
<1>5. CASE e.kind = "text"
  <2>1. Handle(s, e) = Text(s, e.name)
    BY <1>5 DEF Handle
  <2>2. e # Undecodable => e.name # "undecodable"
    BY <1>2, <1>5 DEF Undecodable
  <2> QED BY <2>1, <2>2 DEF Text, IsState
<1>6. CASE e.kind = "end"
  <2>1. Handle(s, e) = End(s, e.name)
    BY <1>6 DEF Handle
  <2>2. e # EndOfResponse => e.name # "response"
    BY <1>2, <1>6 DEF EndOfResponse
  <2> QED BY <2>1, <2>2 DEF End, IsState
<1> QED BY <1>2, <1>3, <1>4, <1>5, <1>6

\* Until a response ends, no other is output; only text that cannot be decoded
\* fails.
LEMMA ReadKeeps ==
  ASSUME NEW s, IsState(s)
  PROVE  /\ \A a \in Seq(Event) : IsState(Read(s, a))
         /\ \A a \in Seq(Event) :
              Read(s, a).failed /\ ~s.failed => \E i \in DOMAIN a : a[i] = Undecodable
         /\ \A a \in Seq(Inner) : Read(s, a).output = s.output
<1>1. \A a \in Seq(Event) : IsState(Read(s, a))
  <2> DEFINE S == {a \in Seq(Event) : IsState(Read(s, a))}
  <2>1. <<>> \in S
    BY ReadFollows, EmptySeq
  <2>2. \A a \in Seq(Event) : \A e \in Event : a \in S => Append(a, e) \in S
    BY ReadFollows, HandleKeeps, AppendProperties
  <2> HIDE DEF S
  <2>3. \A a \in Seq(Event) : a \in S
    BY <2>1, <2>2, Handling!AllBuilt, Zenon
  <2> QED BY <2>3 DEF S
<1>2. ASSUME ~s.failed
      PROVE  \A a \in Seq(Event) : Read(s, a).failed => \E i \in DOMAIN a : a[i] = Undecodable
  <2> DEFINE Bad(a) == \E i \in DOMAIN a : a[i] = Undecodable
             S == {a \in Seq(Event) : Read(s, a).failed => Bad(a)}
  <2>1. <<>> \in S
    BY <1>2, ReadFollows, EmptySeq
  <2>2. ASSUME NEW a \in Seq(Event), NEW e \in Event, a \in S
        PROVE  Append(a, e) \in S
    <3>1. Append(a, e) \in Seq(Event)
      BY AppendProperties
    <3>2. Bad(a) \/ e = Undecodable => Bad(Append(a, e))
      BY AppendProperties
    <3> HIDE DEF Bad
    <3>3. Read(s, Append(a, e)) = Handle(Read(s, a), e)
      BY ReadFollows, Zenon
    <3> QED BY <1>1, <2>2, <3>1, <3>2, <3>3, HandleKeeps
  <2> HIDE DEF S
  <2>3. \A a \in Seq(Event) : a \in S
    BY <2>1, <2>2, Handling!AllBuilt, Zenon
  <2> QED BY <2>3 DEF S
<1>3. \A a \in Seq(Inner) : Read(s, a).output = s.output
  <2> DEFINE S == {a \in Seq(Inner) : Read(s, a).output = s.output}
  <2>1. <<>> \in S
    BY ReadFollows, EmptySeq
  <2>2. ASSUME NEW a \in Seq(Inner), NEW e \in Inner, a \in S
        PROVE  Append(a, e) \in S
    <3>1. Append(a, e) \in Seq(Inner) /\ a \in Seq(Event) /\ e \in Event /\ e # EndOfResponse
      BY AppendProperties, SeqMonotonic DEF Inner
    <3>2. Read(s, Append(a, e)) = Handle(Read(s, a), e)
      BY <3>1, ReadFollows, Zenon
    <3>3. IsState(Read(s, a)) /\ Read(s, a).output = s.output
      BY <1>1, <2>2, <3>1, Zenon
    <3> QED BY <3>1, <3>2, <3>3, HandleKeeps
  <2> HIDE DEF S
  <2>3. \A a \in Seq(Inner) : a \in S
    BY <2>1, <2>2, Handling!AllBuilt, Zenon
  <2> QED BY <2>3 DEF S
<1> QED BY <1>1, <1>2, <1>3, Zenon

\* A failed read stays as it is.
LEMMA FailedStays ==
  ASSUME NEW s, s.failed
  PROVE  \A T : \A a \in Seq(T) : Read(s, a) = s
<1>1. SUFFICES ASSUME NEW T PROVE \A a \in Seq(T) : Read(s, a) = s
  OBVIOUS
<1>2. s \in {s} /\ \A x \in {s} : \A e \in T : HandleOn(0, x, e) \in {s}
  BY Zenon DEF HandleOn, Handle
<1>3. \A a \in Seq(T) : Handling!Loop(0, s, a) \in {s}
  <2> DEFINE A == {s}
  <2>1. s \in A /\ \A x \in A : \A e \in T : HandleOn(0, x, e) \in A
    BY <1>2, Zenon
  <2> HIDE DEF A
  <2>2. \A a \in Seq(T) : Handling!Loop(0, s, a) \in A
    BY <2>1, Handling!LoopStays
  <2> QED BY <2>2 DEF A
<1> QED BY <1>3, Zenon DEF Read

\* A read that has not failed, and a response that is being read.
At(stack, r, capture, output) ==
  [stack |-> stack, current |-> r, capture |-> capture, output |-> output, failed |-> FALSE]
Opened(fields, book) == [open |-> TRUE, fields |-> fields, addressbook |-> book]

Tag(kind, name) == [kind |-> kind, name |-> name]

IsOpen(r) == r.open

\* Elements that are no response and mark no address book.
Ordinary(name) == name \notin {"response", "addressbook"}

\* A tag of an element that is neither a response nor marks an address book.
LEMMA StartHandled ==
  ASSUME NEW stack, NEW r, NEW capture, NEW output, NEW name,
         Ordinary(name), IsOpen(r)
  PROVE  Handle(At(stack, r, capture, output), Tag("start", name))
           = At(Append(stack, name), r, CaptureOf(name, stack, capture), output)
<1>1. Handle(At(stack, r, capture, output), Tag("start", name))
        = Start(At(stack, r, capture, output), name)
  BY DEF Handle, At, Tag
<1>2. Mark(r, name) = r
  BY DEF Mark, Ordinary
<1> QED BY <1>1, <1>2 DEF Start, At, Ordinary, IsOpen

\* Its end, which closes it.
LEMMA EndHandled ==
  ASSUME NEW stack, stack # <<>>, NEW rest, Front(stack) = rest, NEW r, NEW capture,
         NEW output, NEW name, Ordinary(name), name \in Ends \/ capture = NoCapture
  PROVE  Handle(At(stack, r, capture, output), Tag("end", name))
           = At(rest, r, NoCapture, output)
<1>1. Handle(At(stack, r, capture, output), Tag("end", name))
        = End(At(stack, r, capture, output), name)
  BY DEF Handle, At, Tag
<1> QED BY <1>1 DEF End, At, Ordinary

Holds(b) == b = TRUE

\* An address book is marked by an empty element.
LEMMA EmptyHandled ==
  ASSUME NEW stack, NEW fields, NEW book, NEW marked, Holds(marked), NEW capture, NEW output
  PROVE  Handle(At(stack, Opened(fields, book), capture, output),
                Tag("empty", "addressbook"))
           = At(stack, Opened(fields, marked), capture, output)
<1>1. Handle(At(stack, Opened(fields, book), capture, output),
             Tag("empty", "addressbook"))
        = Empty(At(stack, Opened(fields, book), capture, output), "addressbook")
  BY DEF Handle, At, Tag
<1>2. Mark(Opened(fields, book), "addressbook") = Opened(fields, marked)
  BY DEF Mark, Opened, Holds
<1> QED BY <1>1, <1>2 DEF Empty, At

\* Text that no field takes, ...
LEMMA TextDropped ==
  ASSUME NEW stack, NEW r, NEW output, NEW text
  PROVE  Handle(At(stack, r, NoCapture, output), Tag("text", text))
           = At(stack, r, NoCapture, output)
<1>1. Handle(At(stack, r, NoCapture, output), Tag("text", text))
        = Text(At(stack, r, NoCapture, output), text)
  BY DEF Handle, At, Tag
<1> QED BY <1>1 DEF Text, At

\* Text added to a field.
More(fields, field, text) ==
  [n \in DOMAIN fields \cup {field} |->
     IF n = field
     THEN Append(IF field \in DOMAIN fields THEN fields[field] ELSE <<>>, text)
     ELSE fields[n]]

\* append_capture changes the fields alone.
LEMMA Appending ==
  \A open, fields, book, field, text :
    AppendCapture([open |-> open, fields |-> fields, addressbook |-> book], field, text)
      = [open |-> open, fields |-> More(fields, field, text), addressbook |-> book]
<1> SUFFICES ASSUME NEW open, NEW fields, NEW book, NEW field, NEW text
             PROVE  AppendCapture([open |-> open, fields |-> fields, addressbook |-> book],
                                  field, text)
                      = [open |-> open, fields |-> More(fields, field, text),
                         addressbook |-> book]
  OBVIOUS
<1> DEFINE r == [open |-> open, fields |-> fields, addressbook |-> book]
           now == More(fields, field, text)
<1>1. r.fields = fields
  OBVIOUS
<1>2. AppendCapture(r, field, text) = [r EXCEPT !.fields = More(r.fields, field, text)]
  <2> HIDE DEF r
  <2> QED BY Zenon DEF AppendCapture, More
<1> HIDE DEF now
<1>3. [r EXCEPT !.fields = now] = [open |-> open, fields |-> now, addressbook |-> book]
  OBVIOUS
<1> QED BY <1>1, <1>2, <1>3, Zenon DEF now

\* A read that has failed or come to a state.
Comes(s, x) == s.failed \/ s = x

\* Responses being read, without the truth value.
LEMMA OpenedAs ==
  \E open : \A fields, book :
    Opened(fields, book) = [open |-> open, fields |-> fields, addressbook |-> book]
BY Zenon DEF Opened

\* ... and text that one does.
LEMMA TextTaken ==
  ASSUME NEW stack, NEW fields, NEW book, NEW field, NEW output, NEW text,
         field # NoCapture
  PROVE  Comes(Handle(At(stack, Opened(fields, book), field, output), Tag("text", text)),
               At(stack, Opened(More(fields, field, text), book), field, output))
<1> DEFINE s == At(stack, Opened(fields, book), field, output)
<1>1. Handle(s, Tag("text", text)) = Text(s, text)
  BY DEF Handle, At, Tag
<1>2. AppendCapture(Opened(fields, book), field, text)
        = Opened(More(fields, field, text), book)
  <2>1. PICK open : \A f, b : Opened(f, b) = [open |-> open, fields |-> f, addressbook |-> b]
    BY OpenedAs, Zenon
  <2>2. AppendCapture([open |-> open, fields |-> fields, addressbook |-> book], field, text)
          = [open |-> open, fields |-> More(fields, field, text), addressbook |-> book]
    BY Appending
  <2>3. Opened(fields, book) = [open |-> open, fields |-> fields, addressbook |-> book]
    BY <2>1, Zenon
  <2>4. Opened(More(fields, field, text), book)
          = [open |-> open, fields |-> More(fields, field, text), addressbook |-> book]
    BY <2>1, Zenon
  <2> QED BY <2>2, <2>3, <2>4, Zenon
<1>3. text = "undecodable" => Text(s, text).failed
  BY DEF Text, At, Opened
<1>4. text # "undecodable" =>
        Text(s, text) = [s EXCEPT !.current = AppendCapture(@, field, text)]
  BY DEF Text, At, Opened
<1>5. text # "undecodable" => Text(s, text)
        = At(stack, AppendCapture(Opened(fields, book), field, text), field, output)
  BY <1>4 DEF At
<1> QED BY <1>1, <1>2, <1>3, <1>5, Zenon DEF Comes

\* A sequence of images, one by one.
LEMMA MapFollows ==
  ASSUME NEW T, NEW U, NEW f \in [T -> U], NEW t \in Seq(T), NEW c \in T
  PROVE  [i \in DOMAIN Append(t, c) |-> f[Append(t, c)[i]]]
           = Append([i \in DOMAIN t |-> f[t[i]]], f[c])
<1> DEFINE a == Append(t, c)
           n == Len(t)
           F == [i \in DOMAIN t |-> f[t[i]]]
           G == [i \in DOMAIN a |-> f[a[i]]]
<1>1. n \in Nat /\ DOMAIN t = 1..n /\ a \in Seq(T) /\ Len(a) = n + 1 /\ a[n + 1] = c
  OBVIOUS
<1>2. \A i \in 1..n : a[i] = t[i] /\ t[i] \in T
  OBVIOUS
<1>3. DOMAIN a = 1..(n + 1) /\ \A i \in 1..(n + 1) : a[i] \in T
  BY <1>1
<1> HIDE DEF a, n
<1>4. F \in [1..n -> U] /\ G \in [1..(n + 1) -> U] /\ G[n + 1] = f[c]
  BY <1>1, <1>2, <1>3
<1>5. \A i \in 1..n : G[i] = F[i]
  BY <1>1, <1>2, <1>3
<1> HIDE DEF F, G
<1>6. G = Append(F, f[c])
  BY <1>1, <1>4, <1>5, LongerByOne
<1> QED BY <1>6, Zenon DEF F, G, a

\* The events of a text, one by one.
LEMMA TextsFollow ==
  /\ Texts(<<>>) = <<>>
  /\ \A t \in Seq(Names) : Texts(t) \in Seq(Inner)
  /\ \A t \in Seq(Names) : \A c \in Names :
       Texts(Append(t, c)) = Append(Texts(t), [kind |-> "text", name |-> c])
<1> DEFINE ev(c) == [kind |-> "text", name |-> c]
           T == Names
           f == [c \in T |-> ev(c)]
<1>1. \A c \in T : ev(c) \in Inner
  BY DEF Inner, Event, EndOfResponse
<1>2. \A t : Texts(t) = [i \in DOMAIN t |-> ev(t[i])]
  BY Zenon DEF Texts
<1> HIDE DEF ev, T
<1>3. f \in [T -> Inner] /\ \A c \in T : f[c] = ev(c)
  BY <1>1
<1>4. Texts(<<>>) = <<>>
  BY <1>2
<1>5. \A t \in Seq(T) : Texts(t) = [i \in DOMAIN t |-> f[t[i]]]
  BY <1>2, <1>3
<1> HIDE DEF f
<1>6. \A t \in Seq(T) : Texts(t) \in Seq(Inner)
  BY <1>3, <1>5
<1>7. \A t \in Seq(T) : \A c \in T : Texts(Append(t, c)) = Append(Texts(t), f[c])
  <2> SUFFICES ASSUME NEW t \in Seq(T), NEW c \in T
               PROVE  Texts(Append(t, c)) = Append(Texts(t), f[c])
    OBVIOUS
  <2>1. Append(t, c) \in Seq(T)
    OBVIOUS
  <2>2. /\ Texts(Append(t, c)) = [i \in DOMAIN Append(t, c) |-> f[Append(t, c)[i]]]
        /\ Texts(t) = [i \in DOMAIN t |-> f[t[i]]]
    BY <1>5, <2>1, Zenon
  <2>3. [i \in DOMAIN Append(t, c) |-> f[Append(t, c)[i]]]
          = Append([i \in DOMAIN t |-> f[t[i]]], f[c])
    BY <1>3, MapFollows
  <2> QED BY <2>2, <2>3, Zenon
<1> QED BY <1>3, <1>4, <1>6, <1>7, Zenon DEF ev, T

\* Inner events are events.
LEMMA InnerEvents == \A a \in Seq(Inner) : a \in Seq(Event)
<1>1. Inner \subseteq Event
  BY Zenon DEF Inner
<1> QED BY <1>1, SeqMonotonic, Zenon

\* Text that no field takes is read over.
LEMMA TextsDropped ==
  ASSUME NEW stack, NEW r, NEW output, NEW s, s = At(stack, r, NoCapture, output)
  PROVE  \A t \in Seq(Names) : Read(s, Texts(t)) = s
<1> DEFINE S == {t \in Seq(Names) : Read(s, Texts(t)) = s}
<1>1. <<>> \in S
  BY ReadFollows, TextsFollow, EmptySeq
<1>2. ASSUME NEW t \in Seq(Names), NEW c \in Names, t \in S
      PROVE  Append(t, c) \in S
  <2> DEFINE e == [kind |-> "text", name |-> c]
  <2>1. Append(t, c) \in Seq(Names)
    BY AppendProperties
  <2>2. Texts(t) \in Seq(Event) /\ e \in Event
    <3>1. Texts(t) \in Seq(Inner)
      BY TextsFollow, Zenon
    <3>2. e \in Event
      BY DEF Event
    <3> QED BY <3>1, <3>2, InnerEvents
  <2>3. Handle(s, e) = s
    BY TextDropped DEF Tag
  <2> HIDE DEF e
  <2>4. Read(s, Append(Texts(t), e)) = Handle(Read(s, Texts(t)), e)
    BY <2>2, ReadFollows, Zenon
  <2>5. Texts(Append(t, c)) = Append(Texts(t), e)
    BY TextsFollow DEF e
  <2> QED BY <1>2, <2>1, <2>3, <2>4, <2>5
<1> HIDE DEF S
<1>3. \A t \in Seq(Names) : t \in S
  BY <1>1, <1>2, Handling!AllBuilt, Zenon
<1> QED BY <1>3 DEF S

\* Reading the events fails or comes to a state.
Reaches(s, events, x) == Comes(Read(s, events), x)

\* One event after another, ...
LEMMA ReachesOn ==
  ASSUME NEW s, NEW x, NEW y, NEW a \in Seq(Event), NEW b \in Seq(Event),
         Reaches(s, a, x), Reaches(x, b, y)
  PROVE  Reaches(s, a \o b, y)
<1>1. Read(s, a \o b) = Read(Read(s, a), b)
  BY ReadFollows, Zenon
<1>2. CASE Read(s, a).failed
  <2>1. Read(Read(s, a), b) = Read(s, a)
    BY <1>2, FailedStays, Zenon
  <2> QED BY <1>1, <1>2, <2>1, Zenon DEF Reaches, Comes
<1>3. CASE Read(s, a) = x
  BY <1>1, <1>3, Zenon DEF Reaches, Comes
<1> QED BY <1>2, <1>3, Zenon DEF Reaches, Comes

\* ... an event, ...
LEMMA ReachesOne ==
  ASSUME NEW s, NEW e \in Event
  PROVE  <<e>> \in Seq(Event) /\ Reaches(s, <<e>>, Handle(s, e))
<1>1. <<>> \in Seq(Event) /\ Append(<<>>, e) = <<e>> /\ <<e>> \in Seq(Event)
  OBVIOUS
<1>2. Read(s, <<e>>) = Handle(Read(s, <<>>), e)
  <2>1. Read(s, Append(<<>>, e)) = Handle(Read(s, <<>>), e)
    BY <1>1, ReadFollows, Zenon
  <2> QED BY <1>1, <2>1, Zenon
<1>3. Read(s, <<>>) = s
  BY ReadFollows, Zenon
<1> QED BY <1>1, <1>2, <1>3, Zenon DEF Reaches, Comes

\* ... and an element.
LEMMA ReachesElement ==
  ASSUME NEW s, NEW x, NEW y, NEW name \in Names, NEW inside \in Seq(Event),
         Reaches(Handle(s, Tag("start", name)), inside, x),
         Handle(x, Tag("end", name)) = y
  PROVE  Element(name, inside) \in Seq(Event) /\ Reaches(s, Element(name, inside), y)
<1> DEFINE a == Tag("start", name)
           z == Tag("end", name)
<1>1. a \in Event /\ z \in Event
  BY DEF Event, Tag
<1>2. Element(name, inside) = <<a>> \o inside \o <<z>>
  BY Zenon DEF Element, Tag
<1>3. Reaches(x, <<z>>, y) /\ <<z>> \in Seq(Event)
  BY <1>1, ReachesOne, Zenon
<1>4. Reaches(s, <<a>>, Handle(s, a)) /\ <<a>> \in Seq(Event)
  BY <1>1, ReachesOne, Zenon
<1> HIDE DEF a, z
<1>5. <<a>> \o inside \in Seq(Event) /\ <<a>> \o inside \o <<z>> \in Seq(Event)
  BY <1>3, <1>4, ConcatProperties
<1>6. Reaches(s, <<a>> \o inside, x)
  <2>1. Reaches(Handle(s, a), inside, x)
    BY DEF a
  <2> QED BY <1>4, <2>1, ReachesOn, Zenon
<1>7. Reaches(s, <<a>> \o inside \o <<z>>, y)
  BY <1>3, <1>5, <1>6, ReachesOn, Zenon
<1> QED BY <1>2, <1>5, <1>7, Zenon

\* What an element closes is what it opened.
LEMMA Closing ==
  ASSUME NEW T, NEW stack \in Seq(T), NEW name \in T
  PROVE  /\ Append(stack, name) \in Seq(T)
         /\ Append(stack, name) # <<>> /\ Front(Append(stack, name)) = stack
         /\ Last(Append(stack, name)) = name
<1>1. Append(stack, name) \in Seq(T) /\ Len(Append(stack, name)) = Len(stack) + 1
  BY AppendProperties
<1>2. Append(stack, name)[Len(stack) + 1] = name
  BY AppendProperties
<1>3. SubSeq(Append(stack, name), 1, Len(stack)) = stack
  OBVIOUS
<1> QED BY <1>1, <1>2, <1>3 DEF Front, Last

\* Text has been added to a field.
WithText(fields, field, text) ==
  IF text = <<>> THEN fields
  ELSE [n \in DOMAIN fields \cup {field} |-> IF n = field THEN text ELSE fields[n]]

\* Text of one field after another.
LEMMA MoreText ==
  ASSUME NEW fields, NEW field, field \notin DOMAIN fields,
         fields = [n \in DOMAIN fields |-> fields[n]],
         NEW T, NEW text \in Seq(T), NEW c \in T
  PROVE  More(WithText(fields, field, text), field, c)
           = WithText(fields, field, Append(text, c))
<1> DEFINE now == [n \in DOMAIN fields \cup {field} |->
                     IF n = field THEN Append(text, c) ELSE fields[n]]
<1>1. Append(text, c) # <<>>
  OBVIOUS
<1>2. WithText(fields, field, Append(text, c)) = now
  BY <1>1, Zenon DEF WithText
<1>3. CASE text = <<>>
  <2>1. WithText(fields, field, text) = fields
    BY <1>3, Zenon DEF WithText
  <2>2. More(fields, field, c) = now
    BY <1>3, Zenon DEF More
  <2> QED BY <1>2, <2>1, <2>2, Zenon
<1>4. CASE text # <<>>
  <2> DEFINE f == [n \in DOMAIN fields \cup {field} |-> IF n = field THEN text ELSE fields[n]]
  <2>1. WithText(fields, field, text) = f
    BY <1>4, Zenon DEF WithText
  <2>2. DOMAIN f = DOMAIN fields \cup {field} /\ f[field] = text
    BY Zenon
  <2>3. \A n \in DOMAIN fields \cup {field} : n # field => f[n] = fields[n]
    BY Zenon
  <2> HIDE DEF f
  <2>4. More(f, field, c) = [n \in DOMAIN f \cup {field} |->
                               IF n = field THEN Append(f[field], c) ELSE f[n]]
    <3>1. field \in DOMAIN f
      BY <2>2, Zenon
    <3> QED BY <3>1 DEF More
  <2>5. DOMAIN f \cup {field} = DOMAIN fields \cup {field}
    BY <2>2, Zenon
  <2>6. More(f, field, c) = now
    BY <2>2, <2>3, <2>4, <2>5
  <2> QED BY <1>2, <2>1, <2>6, Zenon
<1> QED BY <1>3, <1>4, Zenon

\* A function is its values.
IsFcn(fields) == fields = [n \in DOMAIN fields |-> fields[n]]

\* Text that a field takes is read into it, unless it cannot be decoded.
LEMMA TextsRead ==
  ASSUME NEW stack, NEW fields, IsFcn(fields), NEW book, NEW output,
         NEW field, field # NoCapture, field \notin DOMAIN fields
  PROVE  \A t \in Seq(Names) :
           Reaches(At(stack, Opened(fields, book), field, output), Texts(t),
                   At(stack, Opened(WithText(fields, field, t), book), field, output))
<1> DEFINE s == At(stack, Opened(fields, book), field, output)
           x(t) == At(stack, Opened(WithText(fields, field, t), book), field, output)
           S == {t \in Seq(Names) : Reaches(s, Texts(t), x(t))}
<1>1. <<>> \in S
  <2>1. WithText(fields, field, <<>>) = fields
    BY Zenon DEF WithText
  <2>2. Read(s, Texts(<<>>)) = x(<<>>)
    BY <2>1, ReadFollows, TextsFollow, Zenon
  <2> HIDE DEF s, x
  <2>3. <<>> \in Seq(Names)
    BY EmptySeq
  <2> QED BY <2>2, <2>3, Zenon DEF Reaches, Comes
<1>2. ASSUME NEW t \in Seq(Names), NEW c \in Names, t \in S
      PROVE  Append(t, c) \in S
  <2> DEFINE e == Tag("text", c)
             a == Append(t, c)
  <2>1. a \in Seq(Names) /\ e \in Event /\ Texts(t) \in Seq(Event)
    <3>1. Texts(t) \in Seq(Inner)
      BY TextsFollow, Zenon
    <3>2. e \in Event
      BY DEF Event, Tag
    <3> QED BY <3>1, <3>2, InnerEvents, AppendProperties
  <2>2. Comes(Handle(x(t), e), x(a))
    <3> DEFINE now == More(WithText(fields, field, t), field, c)
               y == At(stack, Opened(now, book), field, output)
    <3>1. Comes(Handle(x(t), e), y)
      BY TextTaken, Zenon
    <3>2. More(WithText(fields, field, t), field, c) = WithText(fields, field, a)
      BY MoreText DEF IsFcn
    <3>3. y = x(a)
      BY <3>2, Zenon
    <3> QED BY <3>1, <3>3, Zenon
  <2>3. Read(s, Texts(a)) = Handle(Read(s, Texts(t)), e)
    <3>1. Texts(a) = Append(Texts(t), e)
      BY TextsFollow, Zenon DEF Tag
    <3> HIDE DEF e, a, s
    <3>2. Read(s, Append(Texts(t), e)) = Handle(Read(s, Texts(t)), e)
      BY <2>1, ReadFollows, Zenon
    <3> QED BY <3>1, <3>2, Zenon
  <2> HIDE DEF e, s, x
  <2>4. Read(s, Texts(t)).failed => Read(s, Texts(a)) = Read(s, Texts(t))
    BY <2>3, Zenon DEF Handle
  <2>5. Read(s, Texts(t)).failed \/ Read(s, Texts(t)) = x(t)
    BY <1>2, Zenon DEF Reaches, Comes
  <2>6. Reaches(s, Texts(a), x(a))
    BY <2>2, <2>3, <2>4, <2>5, Zenon DEF Reaches, Comes
  <2> QED BY <2>1, <2>6, Zenon DEF a
<1> HIDE DEF S
<1>3. \A t \in Seq(Names) : t \in S
  BY <1>1, <1>2, Handling!AllBuilt, Zenon
<1> QED BY <1>3 DEF S

\* Elements that fields take text of.
LEMMA FieldNames ==
  ASSUME NEW name \in Ends
  PROVE  Ordinary(name)
<1>1. Ends = {"href"} \cup {"displayname", "getctag", "getetag", "address-data"}
  BY Zenon DEF Ends, FieldOf
<1>2. name \in {"href", "displayname", "getctag", "getetag", "address-data"}
  BY <1>1, Zenon
<1> QED BY <1>2 DEF Ordinary

\* An element whose text a field takes, and one whose text none does.
LEMMA FieldRead ==
  ASSUME NEW stack \in Seq(Names), NEW fields, IsFcn(fields), NEW book, NEW output,
         NEW name \in Names, name \in Ends, NEW t \in Seq(Names), NEW field,
         CaptureOf(name, stack, NoCapture) = field, field # NoCapture,
         field \notin DOMAIN fields
  PROVE  /\ Element(name, Texts(t)) \in Seq(Event)
         /\ Reaches(At(stack, Opened(fields, book), NoCapture, output),
                    Element(name, Texts(t)),
                    At(stack, Opened(WithText(fields, field, t), book), NoCapture, output))
<1> DEFINE s == At(stack, Opened(fields, book), NoCapture, output)
           x == At(Append(stack, name), Opened(fields, book), field, output)
           after == Opened(WithText(fields, field, t), book)
           y == At(Append(stack, name), after, field, output)
           z == At(stack, after, NoCapture, output)
<1>1. Ordinary(name)
  BY FieldNames, Zenon
<1>2. Append(stack, name) # <<>> /\ Front(Append(stack, name)) = stack
  BY <1>1, Closing, Zenon
<1>3. Handle(s, Tag("start", name)) = x
  <2>1. IsOpen(Opened(fields, book))
    BY DEF Opened, IsOpen
  <2> QED BY <1>1, <2>1, StartHandled
<1>4. Handle(y, Tag("end", name)) = z
  <2> DEFINE within == Append(stack, name)
  <2>1. within # <<>> /\ Front(within) = stack
    BY <1>2, Zenon
  <2> HIDE DEF within, after
  <2>2. Handle(At(within, after, field, output), Tag("end", name))
          = At(stack, after, NoCapture, output)
    BY <1>1, <2>1, EndHandled
  <2> QED BY <2>2, Zenon DEF within
<1>5. Reaches(x, Texts(t), y)
  BY TextsRead, Zenon
<1>6. Texts(t) \in Seq(Event)
  BY TextsFollow, InnerEvents, Zenon
<1> HIDE DEF s, x, y, z
<1>7. Element(name, Texts(t)) \in Seq(Event) /\ Reaches(s, Element(name, Texts(t)), z)
  <2>1. Reaches(Handle(s, Tag("start", name)), Texts(t), y)
    BY <1>3, <1>5, Zenon
  <2> QED BY <1>1, <1>4, <1>6, <2>1, ReachesElement, Zenon
<1> QED BY <1>7, Zenon DEF s, z

\* An element whose text, or elements, no field takes.
LEMMA IdleRead ==
  ASSUME NEW stack \in Seq(Names), NEW r, IsOpen(r), NEW output, NEW r1,
         NEW name \in Names, Ordinary(name),
         CaptureOf(name, stack, NoCapture) = NoCapture,
         NEW inside \in Seq(Event),
         Reaches(At(Append(stack, name), r, NoCapture, output), inside,
                 At(Append(stack, name), r1, NoCapture, output))
  PROVE  /\ Element(name, inside) \in Seq(Event)
         /\ Reaches(At(stack, r, NoCapture, output), Element(name, inside),
                    At(stack, r1, NoCapture, output))
<1> DEFINE s == At(stack, r, NoCapture, output)
           x == At(Append(stack, name), r, NoCapture, output)
           y == At(Append(stack, name), r1, NoCapture, output)
           z == At(stack, r1, NoCapture, output)
<1>2. Append(stack, name) # <<>> /\ Front(Append(stack, name)) = stack
  BY Closing, Zenon
<1>3. Handle(s, Tag("start", name)) = x
  BY StartHandled
<1>4. Handle(y, Tag("end", name)) = z
  <2> DEFINE within == Append(stack, name)
  <2>1. within # <<>> /\ Front(within) = stack
    BY <1>2, Zenon
  <2> HIDE DEF within
  <2>2. Handle(At(within, r1, NoCapture, output), Tag("end", name))
          = At(stack, r1, NoCapture, output)
    BY <2>1, EndHandled
  <2> QED BY <2>2, Zenon DEF within
<1> HIDE DEF s, x, y, z
<1>7. Element(name, inside) \in Seq(Event) /\ Reaches(s, Element(name, inside), z)
  <2>1. Reaches(Handle(s, Tag("start", name)), inside, y)
    BY <1>3, Zenon DEF x, y
  <2> QED BY <1>4, <2>1, ReachesElement, Zenon
<1> QED BY <1>7, Zenon DEF s, z

\* The fields that take text, in so many words.
LEMMA FieldTable ==
  /\ DOMAIN FieldOf = {"displayname", "getctag", "getetag", "address-data"}
  /\ FieldOf["displayname"] = "display_name" /\ FieldOf["getctag"] = "ctag"
  /\ FieldOf["getetag"] = "etag" /\ FieldOf["address-data"] = "address_data"
  /\ DOMAIN HrefOf = {"current-user-principal", "addressbook-home-set", "response"}
  /\ HrefOf["current-user-principal"] = "current_user_principal"
  /\ HrefOf["addressbook-home-set"] = "addressbook_home" /\ HrefOf["response"] = "href"
BY DEF FieldOf, HrefOf

\* Where the text of an element goes.
LEMMA Captures ==
  ASSUME NEW stack, NEW name
  PROVE  /\ name \in DOMAIN FieldOf =>
              /\ CaptureOf(name, stack, NoCapture) = FieldOf[name]
              /\ FieldOf[name] # NoCapture /\ name \in Ends /\ Ordinary(name)
         /\ name \notin DOMAIN FieldOf /\ name # "href" =>
              CaptureOf(name, stack, NoCapture) = NoCapture
         /\ Last(stack) \notin DOMAIN HrefOf => CaptureOf("href", stack, NoCapture) = NoCapture
         /\ stack # <<>> /\ Last(stack) \in DOMAIN HrefOf =>
              /\ CaptureOf("href", stack, NoCapture) = HrefOf[Last(stack)]
              /\ HrefOf[Last(stack)] # NoCapture
         /\ "href" \in Ends /\ Ordinary("href")
<1> DEFINE above == Last(stack)
           bottom == stack = <<>>
<1>1. \A capture, n : CaptureOf(n, stack, capture)
        = IF n = "href" /\ ~bottom /\ above \in DOMAIN HrefOf THEN HrefOf[above]
          ELSE IF n \in DOMAIN FieldOf THEN FieldOf[n] ELSE capture
  BY DEF CaptureOf
<1>2. name \in DOMAIN FieldOf => FieldOf[name] # NoCapture /\ name # "href" /\ Ordinary(name)
  BY FieldTable DEF NoCapture, Ordinary
<1>3. above \in DOMAIN HrefOf => HrefOf[above] # NoCapture
  BY FieldTable DEF NoCapture
<1>4. "href" \notin DOMAIN FieldOf /\ Ordinary("href")
  BY FieldTable DEF Ordinary
<1>5. Ends = {"href"} \cup DOMAIN FieldOf
  BY DEF Ends
<1> HIDE DEF above, bottom
<1>6. /\ name \in DOMAIN FieldOf => CaptureOf(name, stack, NoCapture) = FieldOf[name]
      /\ name \notin DOMAIN FieldOf /\ name # "href" =>
              CaptureOf(name, stack, NoCapture) = NoCapture
      /\ above \notin DOMAIN HrefOf => CaptureOf("href", stack, NoCapture) = NoCapture
      /\ ~bottom /\ above \in DOMAIN HrefOf =>
              CaptureOf("href", stack, NoCapture) = HrefOf[above]
  BY <1>1, <1>2, <1>4
<1>7. (name \in DOMAIN FieldOf => name \in Ends) /\ "href" \in Ends
  BY <1>5, Zenon
<1> QED BY <1>2, <1>3, <1>4, <1>6, <1>7, Zenon DEF above, bottom

\* A property as documents have it, and whether a field takes its text.
Allowed(p) ==
  /\ p.name \in Names /\ Ordinary(p.name) /\ p.text \in Seq(Names)
  /\ p.inner \in {"none", "addressbook", "href"}
  /\ p.inner # "none" => p.name \notin DOMAIN FieldOf
Caught(p) ==
  \/ p.inner = "none" /\ p.name \in DOMAIN FieldOf
  \/ p.inner = "href" /\ p.name \in DOMAIN HrefOf
FieldAt(p) == IF p.inner = "none" THEN FieldOf[p.name] ELSE HrefOf[p.name]

\* What reading it adds.
Taken(fields, p) == IF Caught(p) THEN WithText(fields, FieldAt(p), p.text) ELSE fields
Marked(book, p) == IF p.inner = "addressbook" THEN TRUE ELSE book

\* No two properties have the same place.
LEMMA PlacesDiffer ==
  ASSUME NEW p, NEW q, Allowed(p), Allowed(q), Caught(p), Caught(q)
  PROVE  FieldAt(p) # "href" /\ (FieldAt(p) = FieldAt(q) => p.name = q.name)
<1>1. \A n \in DOMAIN FieldOf :
        FieldOf[n] # "href" /\ \A m \in DOMAIN HrefOf : FieldOf[n] # HrefOf[m]
  BY FieldTable
<1>2. \A n, m \in DOMAIN FieldOf : FieldOf[n] = FieldOf[m] => n = m
  BY FieldTable
<1>3. \A n, m \in DOMAIN HrefOf : HrefOf[n] = HrefOf[m] => n = m
  BY FieldTable
<1>4. \A n \in DOMAIN HrefOf : Ordinary(n) => HrefOf[n] # "href"
  BY FieldTable DEF Ordinary
<1>5. ASSUME NEW x \in {p, q}
      PROVE  \/ x.name \in DOMAIN FieldOf /\ FieldAt(x) = FieldOf[x.name]
             \/ x.name \in DOMAIN HrefOf /\ FieldAt(x) = HrefOf[x.name]
  BY DEF Caught, FieldAt
<1>6. Ordinary(p.name)
  BY DEF Allowed
<1> QED BY <1>1, <1>2, <1>3, <1>4, <1>5, <1>6, Zenon

\* A text that no field takes.
LEMMA IdleText ==
  ASSUME NEW stack \in Seq(Names), NEW r, IsOpen(r), NEW output,
         NEW name \in Names, Ordinary(name), CaptureOf(name, stack, NoCapture) = NoCapture,
         NEW t \in Seq(Names)
  PROVE  /\ Element(name, Texts(t)) \in Seq(Event)
         /\ Reaches(At(stack, r, NoCapture, output), Element(name, Texts(t)),
                    At(stack, r, NoCapture, output))
<1>1. Texts(t) \in Seq(Event)
  BY TextsFollow, InnerEvents, Zenon
<1>2. Reaches(At(Append(stack, name), r, NoCapture, output), Texts(t),
              At(Append(stack, name), r, NoCapture, output))
  BY TextsDropped, Zenon DEF Reaches, Comes
<1> QED BY <1>1, <1>2, IdleRead

\* A response being read is.
LEMMA OpenedIsOpen ==
  \A fields, book : IsOpen(Opened(fields, book))
BY DEF IsOpen, Opened

\* A property is read into its field, if it has one.
LEMMA PropRead ==
  ASSUME NEW stack \in Seq(Names), stack # <<>>, Last(stack) \notin DOMAIN HrefOf,
         NEW fields, IsFcn(fields), NEW book, NEW output, NEW p, Allowed(p),
         Caught(p) => FieldAt(p) \notin DOMAIN fields
  PROVE  /\ PropertyEvents(p) \in Seq(Event)
         /\ Reaches(At(stack, Opened(fields, book), NoCapture, output), PropertyEvents(p),
                    At(stack, Opened(Taken(fields, p), Marked(book, p)), NoCapture, output))
<1> DEFINE s == At(stack, Opened(fields, book), NoCapture, output)
           y == At(stack, Opened(Taken(fields, p), Marked(book, p)), NoCapture, output)
           name == p.name
           t == p.text
           within == Append(stack, name)
<1>1. name \in Names /\ Ordinary(name) /\ t \in Seq(Names)
  BY Zenon DEF Allowed
<1>2. p.inner # "none" => name \notin DOMAIN FieldOf
  BY Zenon DEF Allowed
<1>3. IsOpen(Opened(fields, book))
  BY OpenedIsOpen, Zenon
<1>4. CASE p.inner = "none"
  <2>1. PropertyEvents(p) = Element(name, Texts(t))
    BY <1>4 DEF PropertyEvents
  <2>2. Marked(book, p) = book /\ (Caught(p) <=> name \in DOMAIN FieldOf)
        /\ FieldAt(p) = FieldOf[name]
    BY <1>4 DEF Marked, Caught, FieldAt
  <2> HIDE DEF name, t
  <2>3. CASE name \in DOMAIN FieldOf
    <3>1. /\ CaptureOf(name, stack, NoCapture) = FieldOf[name] /\ name \in Ends
          /\ FieldOf[name] # NoCapture
      BY <2>3, Captures, Zenon
    <3>2. FieldOf[name] \notin DOMAIN fields
      BY <2>2, <2>3, Zenon
    <3>3. Taken(fields, p) = WithText(fields, FieldOf[name], t)
      BY <2>2, <2>3, Zenon DEF Taken, t
    <3>4. /\ Element(name, Texts(t)) \in Seq(Event)
          /\ Reaches(s, Element(name, Texts(t)),
               At(stack, Opened(WithText(fields, FieldOf[name], t), book), NoCapture, output))
      BY <1>1, <3>1, <3>2, FieldRead
    <3> QED BY <2>1, <2>2, <3>3, <3>4, Zenon
  <2>4. CASE name \notin DOMAIN FieldOf
    <3>1. CaptureOf(name, stack, NoCapture) = NoCapture
      BY <2>4, Captures, Zenon
    <3>2. Taken(fields, p) = fields
      BY <2>2, <2>4, Zenon DEF Taken
    <3>3. Element(name, Texts(t)) \in Seq(Event) /\ Reaches(s, Element(name, Texts(t)), s)
      BY <1>1, <1>3, <3>1, IdleText
    <3> QED BY <2>1, <2>2, <3>2, <3>3, Zenon
  <2> QED BY <2>3, <2>4, Zenon
<1>5. p.inner # "none" => CaptureOf(name, stack, NoCapture) = NoCapture
  BY <1>2, Captures, Zenon
<1>6. within \in Seq(Names) /\ within # <<>> /\ Last(within) = name
  BY <1>1, Closing
<1>7. CASE p.inner = "addressbook"
  <2> DEFINE e == Tag("empty", "addressbook")
             x == At(within, Opened(fields, book), NoCapture, output)
             x1 == At(within, Opened(fields, Marked(book, p)), NoCapture, output)
  <2>1. PropertyEvents(p) = Element(name, <<e>>)
    BY <1>7 DEF PropertyEvents, Tag
  <2>2. Marked(book, p) = TRUE /\ Taken(fields, p) = fields
    BY <1>7 DEF Marked, Taken, Caught
  <2>3. e \in Event
    BY DEF Event, Tag, Names
  <2>4. Handle(x, e) = x1
    <3> DEFINE marked == Marked(book, p)
    <3>1. Holds(marked)
      BY <2>2, Zenon DEF Holds
    <3> HIDE DEF marked, within
    <3>2. Handle(At(within, Opened(fields, book), NoCapture, output),
                 Tag("empty", "addressbook"))
            = At(within, Opened(fields, marked), NoCapture, output)
      BY <3>1, EmptyHandled
    <3> QED BY <3>2, Zenon DEF marked
  <2> HIDE DEF e, x, x1
  <2>5. <<e>> \in Seq(Event) /\ Reaches(x, <<e>>, x1)
    BY <2>3, <2>4, ReachesOne, Zenon
  <2>6. /\ Element(name, <<e>>) \in Seq(Event)
        /\ Reaches(s, Element(name, <<e>>),
                   At(stack, Opened(fields, Marked(book, p)), NoCapture, output))
    <3>1. CaptureOf(name, stack, NoCapture) = NoCapture
      BY <1>5, <1>7
    <3> QED BY <1>1, <1>3, <2>5, <3>1, IdleRead DEF x, x1
  <2> QED BY <2>1, <2>2, <2>6, Zenon
<1>8. CASE p.inner = "href"
  <2> DEFINE inside == Element("href", Texts(t))
             x == At(within, Opened(fields, book), NoCapture, output)
             x1 == At(within, Opened(Taken(fields, p), book), NoCapture, output)
  <2>1. PropertyEvents(p) = Element(name, inside)
    BY <1>8 DEF PropertyEvents
  <2>2. Marked(book, p) = book /\ (Caught(p) <=> name \in DOMAIN HrefOf)
        /\ FieldAt(p) = HrefOf[name]
    BY <1>8 DEF Marked, Caught, FieldAt
  <2>3. "href" \in Names /\ Ordinary("href") /\ "href" \in Ends
    BY Captures, Zenon DEF Names
  <2> HIDE DEF name, t, within
  <2>4. inside \in Seq(Event) /\ Reaches(x, inside, x1)
    <3>1. CASE name \in DOMAIN HrefOf
      <4>1. CaptureOf("href", within, NoCapture) = HrefOf[name] /\ HrefOf[name] # NoCapture
        BY <1>6, <3>1, Captures, Zenon
      <4>2. HrefOf[name] \notin DOMAIN fields
        BY <2>2, <3>1, Zenon
      <4>3. Taken(fields, p) = WithText(fields, HrefOf[name], t)
        BY <2>2, <3>1, Zenon DEF Taken, t
      <4>4. inside \in Seq(Event) /\ Reaches(x, inside,
               At(within, Opened(WithText(fields, HrefOf[name], t), book), NoCapture, output))
        BY <1>1, <1>6, <2>3, <4>1, <4>2, FieldRead
      <4> QED BY <4>3, <4>4, Zenon
    <3>2. CASE name \notin DOMAIN HrefOf
      <4>1. CaptureOf("href", within, NoCapture) = NoCapture
        BY <1>6, <3>2, Captures, Zenon
      <4>2. Taken(fields, p) = fields
        BY <2>2, <3>2, Zenon DEF Taken
      <4>3. inside \in Seq(Event) /\ Reaches(x, inside, x)
        BY <1>1, <1>3, <1>6, <2>3, <4>1, IdleText
      <4> QED BY <4>2, <4>3, Zenon
    <3> QED BY <3>1, <3>2, Zenon
  <2> HIDE DEF inside, x, x1
  <2>5. /\ Element(name, inside) \in Seq(Event)
        /\ Reaches(s, Element(name, inside),
                   At(stack, Opened(Taken(fields, p), book), NoCapture, output))
    <3>1. CaptureOf(name, stack, NoCapture) = NoCapture
      BY <1>5, <1>8
    <3> QED BY <1>1, <1>3, <2>4, <3>1, IdleRead DEF x, x1, within
  <2> QED BY <2>1, <2>2, <2>5, Zenon
<1> QED BY <1>4, <1>7, <1>8 DEF Allowed

\* FieldTable as pairs of a name and a text, and the fields they make up.
AsFields(full) == [n \in {f[1] : f \in full} |-> (CHOOSE f \in full : f[1] = n)[2]]
Functional(full) == \A f, g \in full : f[1] = g[1] => f = g
Grown(full, field, text) == IF text = <<>> THEN full ELSE full \cup {<<field, text>>}

\* A pair more is a text more.
LEMMA FieldsGrow ==
  ASSUME NEW full, Functional(full), NEW field, field \notin {f[1] : f \in full}, NEW text
  PROVE  /\ IsFcn(AsFields(full)) /\ DOMAIN AsFields(full) = {f[1] : f \in full}
         /\ Functional(Grown(full, field, text))
         /\ AsFields(Grown(full, field, text)) = WithText(AsFields(full), field, text)
<1> DEFINE name(f) == f[1]
           pair == <<field, text>>
           more == full \cup {pair}
           of(fs, n) == CHOOSE f \in fs : f[1] = n
<1>1. IsFcn(AsFields(full)) /\ DOMAIN AsFields(full) = {f[1] : f \in full}
  <2> DEFINE names == {f[1] : f \in full}
             v(n) == of(full, n)[2]
  <2>1. AsFields(full) = [n \in names |-> v(n)]
    BY Zenon DEF AsFields
  <2> HIDE DEF names, v
  <2>2. IsFcn([n \in names |-> v(n)]) /\ DOMAIN [n \in names |-> v(n)] = names
    BY DEF IsFcn
  <2> QED BY <2>1, <2>2, Zenon DEF names
<1>2. CASE text = <<>>
  <2>1. Grown(full, field, text) = full
    BY <1>2, Zenon DEF Grown
  <2>2. WithText(AsFields(full), field, text) = AsFields(full)
    BY <1>2, Zenon DEF WithText
  <2> QED BY <1>1, <2>1, <2>2, Zenon
<1>3. CASE text # <<>>
  <2>1. Grown(full, field, text) = more
    BY <1>3, Zenon DEF Grown
  <2>2. pair[1] = field /\ pair[2] = text
    OBVIOUS
  <2> HIDE DEF pair
  <2>3. Functional(more)
    BY <2>2, Zenon DEF Functional
  <2>4. {f[1] : f \in more} = {f[1] : f \in full} \cup {field}
    BY <2>2
  <2>5. of(more, field)[2] = text
    <3>1. \A f \in more : f[1] = field => f = pair
      BY Zenon
    <3>2. pair \in more /\ pair[1] = field
      BY <2>2, Zenon
    <3>3. of(more, field) \in more /\ of(more, field)[1] = field
      BY <3>2, Zenon
    <3> QED BY <2>2, <3>1, <3>3, Zenon
  <2>6. ASSUME NEW n \in {f[1] : f \in full}
        PROVE  n # field /\ of(more, n) = of(full, n)
    <3>1. PICK g \in full : g[1] = n
      BY Zenon
    <3>2. of(full, n) \in full /\ of(full, n)[1] = n
      BY <3>1, Zenon
    <3>3. of(more, n) \in more /\ of(more, n)[1] = n
      BY <3>1, Zenon
    <3>4. n # field
      BY Zenon
    <3>5. of(more, n) \in full
      BY <2>2, <3>3, <3>4, Zenon
    <3> QED BY <3>2, <3>3, <3>4, <3>5, Zenon DEF Functional
  <2> HIDE DEF of, more
  <2>7. /\ AsFields(more) = [n \in {f[1] : f \in more} |-> of(more, n)[2]]
        /\ AsFields(full) = [n \in {f[1] : f \in full} |-> of(full, n)[2]]
    BY Zenon DEF AsFields, of
  <2>8. WithText(AsFields(full), field, text)
          = [n \in {f[1] : f \in full} \cup {field} |->
               IF n = field THEN text ELSE AsFields(full)[n]]
    BY <1>1, <1>3, Zenon DEF WithText
  <2>9. \A n \in {f[1] : f \in full} : AsFields(full)[n] = of(full, n)[2]
    BY <2>7, Zenon
  <2> HIDE DEF AsFields
  <2> DEFINE all == {f[1] : f \in full} \cup {field}
  <2>10. \A n \in all : of(more, n)[2] = IF n = field THEN text ELSE AsFields(full)[n]
    BY <2>5, <2>6, <2>9, Zenon
  <2>11. AsFields(more) = WithText(AsFields(full), field, text)
    BY <2>4, <2>7, <2>8, <2>10, Zenon
  <2> QED BY <1>1, <2>1, <2>3, <2>11, Zenon
<1> QED BY <1>2, <1>3, Zenon

\* The fields of a response with some of its properties.
Full(href, props) ==
  {f \in {<<"href", href>>} \cup
         {<<FieldAt(p), p.text>> : p \in {p \in ToSet(props) : Caught(p)}} : f[2] # <<>>}
HasBook(props) == \E p \in ToSet(props) : p.inner = "addressbook"

\* Properties a document may have.
Distinct(props) ==
  /\ \A i \in DOMAIN props : Allowed(props[i])
  /\ \A i, j \in DOMAIN props : props[i].name = props[j].name => i = j

\* A property more is a pair more, or marks an address book.
LEMMA FullGrows ==
  ASSUME NEW href
  PROVE  /\ Full(href, <<>>) = Grown({}, "href", href) /\ HasBook(<<>>) = FALSE
         /\ \A T : \A props \in Seq(T) : \A p \in T :
              /\ Full(href, Append(props, p)) =
                   IF Caught(p) THEN Grown(Full(href, props), FieldAt(p), p.text)
                   ELSE Full(href, props)
              /\ HasBook(Append(props, p)) = Marked(HasBook(props), p)
<1> DEFINE pair(p) == <<FieldAt(p), p.text>>
           own == <<"href", href>>
<1>1. \A props : Full(href, props) =
        {f \in {own} \cup {pair(p) : p \in {p \in ToSet(props) : Caught(p)}} : f[2] # <<>>}
  BY Zenon DEF Full
<1>2. own[2] = href /\ \A p : pair(p)[2] = p.text
  OBVIOUS
<1>3. ToSet(<<>>) = {}
  BY DEF ToSet
<1>4. ASSUME NEW T, NEW props \in Seq(T), NEW p \in T
      PROVE  ToSet(Append(props, p)) = ToSet(props) \cup {p}
  <2> DEFINE r == Append(props, p)
  <2>1. /\ DOMAIN r = DOMAIN props \cup {Len(props) + 1} /\ r[Len(props) + 1] = p
        /\ \A i \in DOMAIN props : r[i] = props[i]
    BY AppendProperties
  <2> HIDE DEF r
  <2>2. \A x : x \in ToSet(r) <=> \E i \in DOMAIN r : r[i] = x
    BY DEF ToSet
  <2>3. \A x : x \in ToSet(props) <=> \E i \in DOMAIN props : props[i] = x
    BY DEF ToSet
  <2>4. \A x : x \in ToSet(r) <=> x \in ToSet(props) \cup {p}
    BY <2>1, <2>2, <2>3
  <2> QED BY <2>4 DEF r
<1>5. Full(href, <<>>) = Grown({}, "href", href)
  <2> HIDE DEF pair, own
  <2>1. Full(href, <<>>) = {f \in {own} : f[2] # <<>>}
    BY <1>1, <1>3
  <2>2. Full(href, <<>>) = IF href = <<>> THEN {} ELSE {own}
    BY <1>2, <2>1
  <2> QED BY <2>2, Zenon DEF Grown, own
<1>6. HasBook(<<>>) = FALSE
  BY <1>3, Zenon DEF HasBook
<1>7. ASSUME NEW T, NEW props \in Seq(T), NEW p \in T
      PROVE  Full(href, Append(props, p)) =
                   IF Caught(p) THEN Grown(Full(href, props), FieldAt(p), p.text)
                   ELSE Full(href, props)
  <2> HIDE DEF pair, own
  <2> DEFINE now == ToSet(Append(props, p))
             before == ToSet(props)
  <2>0. now = before \cup {p}
    BY <1>4
  <2> HIDE DEF now, before
  <2>3. /\ ~Caught(p) => {q \in now : Caught(q)} = {q \in before : Caught(q)}
        /\ Caught(p) => {q \in now : Caught(q)} = {q \in before : Caught(q)} \cup {p}
    BY <2>0
  <2>1. CASE ~Caught(p)
    <3>1. {q \in ToSet(Append(props, p)) : Caught(q)} = {q \in ToSet(props) : Caught(q)}
      BY <2>1, <2>3, Zenon DEF now, before
    <3>2. Full(href, Append(props, p)) = Full(href, props)
      BY <1>1, <3>1, Zenon
    <3> QED BY <2>1, <3>2, Zenon
  <2>2. CASE Caught(p)
    <3> DEFINE F == Full(href, Append(props, p))
               E == Full(href, props)
    <3>1. {q \in ToSet(Append(props, p)) : Caught(q)}
            = {q \in ToSet(props) : Caught(q)} \cup {p}
      BY <2>2, <2>3, Zenon DEF now, before
    <3>2. \A f : f \in F <=> (f \in E \/ (f = pair(p) /\ f[2] # <<>>))
      BY <1>1, <3>1
    <3> HIDE DEF E, F
    <3>3. F = IF p.text = <<>> THEN E ELSE E \cup {pair(p)}
      BY <1>2, <3>2
    <3> QED BY <2>2, <3>3, Zenon DEF Grown, pair, E, F
  <2> QED BY <2>1, <2>2, Zenon
<1>8. ASSUME NEW T, NEW props \in Seq(T), NEW p \in T
      PROVE  HasBook(Append(props, p)) = Marked(HasBook(props), p)
  <2>1. HasBook(Append(props, p)) <=> HasBook(props) \/ p.inner = "addressbook"
    BY <1>4 DEF HasBook
  <2>2. HasBook(Append(props, p)) \in BOOLEAN /\ HasBook(props) \in BOOLEAN
    BY Zenon DEF HasBook
  <2> QED BY <2>1, <2>2, Zenon DEF Marked
<1> QED BY <1>5, <1>6, <1>7, <1>8, Zenon

\* The loops that put the events of properties and of responses together.
JoinProperty(p, out, x) == out \o PropertyEvents(x)
JoinResponse(p, out, x) == out \o ResponseEvents(x)
OfProperties == INSTANCE Loops WITH Step <- JoinProperty
OfResponses == INSTANCE Loops WITH Step <- JoinResponse
PropsEvents(props) == OfProperties!Loop(0, <<>>, props)
BookEvents(document) == OfResponses!Loop(0, <<>>, document)

\* Events of a document, by its parts.
LEMMA EventsFollow ==
  /\ PropsEvents(<<>>) = <<>>
  /\ \A props \in Seq(Property) : \A p \in Property :
       PropsEvents(Append(props, p)) = PropsEvents(props) \o PropertyEvents(p)
  /\ \A r : ResponseEvents(r) =
       Element("response",
         Element("href", Texts(r.href))
         \o Element("propstat",
              Element("prop", PropsEvents(r.props)) \o Element("status", Texts(<<"x">>))))
  /\ BookEvents(<<>>) = <<>>
  /\ \A document \in Seq(Response) : \A r \in Response :
       BookEvents(Append(document, r)) = BookEvents(document) \o ResponseEvents(r)
  /\ \A document : Events(document) = Element("multistatus", BookEvents(document))
<1>1. PropsEvents(<<>>) = <<>>
  BY OfProperties!LoopStarts, Zenon DEF PropsEvents
<1>2. ASSUME NEW props \in Seq(Property), NEW p \in Property
      PROVE  PropsEvents(Append(props, p)) = PropsEvents(props) \o PropertyEvents(p)
  <2>1. OfProperties!Loop(0, <<>>, Append(props, p))
          = JoinProperty(0, OfProperties!Loop(0, <<>>, props), p)
    BY OfProperties!LoopUnrolls
  <2> QED BY <2>1, Zenon DEF PropsEvents, JoinProperty
<1>3. ASSUME NEW r
      PROVE  ResponseEvents(r) =
               Element("response",
                 Element("href", Texts(r.href))
                 \o Element("propstat",
                      Element("prop", PropsEvents(r.props))
                      \o Element("status", Texts(<<"x">>))))
  <2>1. Run(LAMBDA out, p : out \o PropertyEvents(p), <<>>, r.props) = PropsEvents(r.props)
    BY Zenon DEF Run, PropsEvents, OfProperties!Loop, JoinProperty
  <2> QED BY <2>1, Zenon DEF ResponseEvents
<1>4. BookEvents(<<>>) = <<>>
  BY OfResponses!LoopStarts, Zenon DEF BookEvents
<1>5. ASSUME NEW document \in Seq(Response), NEW r \in Response
      PROVE  BookEvents(Append(document, r)) = BookEvents(document) \o ResponseEvents(r)
  <2>1. OfResponses!Loop(0, <<>>, Append(document, r))
          = JoinResponse(0, OfResponses!Loop(0, <<>>, document), r)
    BY OfResponses!LoopUnrolls
  <2> QED BY <2>1, Zenon DEF BookEvents, JoinResponse
<1>6. ASSUME NEW document
      PROVE  Events(document) = Element("multistatus", BookEvents(document))
  <2>1. Run(LAMBDA out, r : out \o ResponseEvents(r), <<>>, document) = BookEvents(document)
    BY Zenon DEF Run, BookEvents, OfResponses!Loop, JoinResponse
  <2> QED BY <2>1, Zenon DEF Events
<1> QED BY <1>1, <1>2, <1>3, <1>4, <1>5, <1>6, Zenon

\* The fields of a response are those of its properties, and its own href.
LEMMA PropsRead ==
  ASSUME NEW stack \in Seq(Names), stack # <<>>, Last(stack) \notin DOMAIN HrefOf,
         NEW href, NEW output, NEW read,
         read = At(stack, Opened(AsFields(Full(href, <<>>)), FALSE), NoCapture, output)
  PROVE  \A props \in Seq(Property) : Distinct(props) =>
           /\ PropsEvents(props) \in Seq(Event)
           /\ Functional(Full(href, props))
           /\ Reaches(read, PropsEvents(props),
                      At(stack, Opened(AsFields(Full(href, props)), HasBook(props)),
                         NoCapture, output))
<1> DEFINE after(ps) == At(stack, Opened(AsFields(Full(href, ps)), HasBook(ps)),
                           NoCapture, output)
           Fine(ps) == /\ PropsEvents(ps) \in Seq(Event)
                       /\ Functional(Full(href, ps))
                       /\ Reaches(read, PropsEvents(ps), after(ps))
           S == {ps \in Seq(Property) : Distinct(ps) => Fine(ps)}
<1>1. <<>> \in S
  <2>1. read = after(<<>>)
    BY FullGrows, Zenon
  <2>2. PropsEvents(<<>>) = <<>> /\ Read(read, <<>>) = read
    BY EventsFollow, ReadFollows, Zenon
  <2>3. Functional(Full(href, <<>>))
    BY FullGrows DEF Functional, Grown
  <2> HIDE DEF after
  <2>4. Reaches(read, PropsEvents(<<>>), after(<<>>))
    BY <2>1, <2>2, Zenon DEF Reaches, Comes
  <2>5. \A T : <<>> \in Seq(T)
    OBVIOUS
  <2> QED BY <2>2, <2>3, <2>4, <2>5, Zenon
<1>2. ASSUME NEW ps \in Seq(Property), NEW p \in Property, ps \in S
      PROVE  Append(ps, p) \in S
  <2> DEFINE a == Append(ps, p)
             full == Full(href, ps)
  <2>1. a \in Seq(Property) /\ Len(ps) \in Nat /\ DOMAIN ps = 1..Len(ps)
        /\ DOMAIN a = 1..(Len(ps) + 1)
        /\ a[Len(ps) + 1] = p /\ \A i \in DOMAIN ps : a[i] = ps[i]
    BY AppendProperties
  <2> HIDE DEF a
  <2> SUFFICES ASSUME Distinct(a)
               PROVE  Fine(a)
    BY <2>1, Zenon DEF a
  <2>2. /\ Distinct(ps) /\ Allowed(p)
        /\ \A i \in DOMAIN ps : ps[i].name # p.name /\ Allowed(ps[i])
    BY <2>1 DEF Distinct
  <2>3. Fine(ps)
    BY <1>2, <2>2, Zenon
  <2>4. ASSUME Caught(p)
        PROVE  FieldAt(p) \notin {f[1] : f \in full}
    <3>1. \A q : q \in ToSet(ps) => Allowed(q) /\ q.name # p.name
      BY <2>2 DEF ToSet
    <3>2. \A q : q \in ToSet(ps) /\ Caught(q) => FieldAt(q) # FieldAt(p)
      BY <2>2, <2>4, <3>1, PlacesDiffer, Zenon
    <3>3. FieldAt(p) # "href"
      BY <2>2, <2>4, PlacesDiffer, Zenon
    <3>4. full \subseteq {<<"href", href>>} \cup
                         {<<FieldAt(q), q.text>> : q \in {q \in ToSet(ps) : Caught(q)}}
      BY Zenon DEF Full
    <3> HIDE DEF full
    <3>5. \A f \in full : f[1] # FieldAt(p)
      BY <3>2, <3>3, <3>4
    <3> QED BY <3>5, Zenon
  <2>5. /\ Full(href, a) = IF Caught(p) THEN Grown(full, FieldAt(p), p.text) ELSE full
        /\ HasBook(a) = Marked(HasBook(ps), p)
    BY FullGrows, Zenon DEF a
  <2> HIDE DEF full
  <2>6. /\ Functional(Full(href, a)) /\ IsFcn(AsFields(full))
        /\ DOMAIN AsFields(full) = {f[1] : f \in full}
        /\ AsFields(Full(href, a)) = Taken(AsFields(full), p)
    <3>0. Functional(full)
      BY <2>3, Zenon DEF full
    <3>1. CASE Caught(p)
      <4>1. Full(href, a) = Grown(full, FieldAt(p), p.text)
        BY <2>5, <3>1, Zenon
      <4>2. Taken(AsFields(full), p) = WithText(AsFields(full), FieldAt(p), p.text)
        BY <3>1, Zenon DEF Taken
      <4> QED BY <2>4, <3>0, <3>1, <4>1, <4>2, FieldsGrow
    <3>2. CASE ~Caught(p)
      <4>1. Full(href, a) = full /\ Taken(AsFields(full), p) = AsFields(full)
        BY <2>5, <3>2, Zenon DEF Taken
      <4>2. IsFcn(AsFields(full)) /\ DOMAIN AsFields(full) = {f[1] : f \in full}
        <5>1. PICK x : x \notin {f[1] : f \in full}
          BY NoSetContainsEverything, Zenon
        <5> QED BY <3>0, <5>1, FieldsGrow, Zenon
      <4> QED BY <3>0, <4>1, <4>2, Zenon
    <3> QED BY <3>1, <3>2, Zenon
  <2>7. /\ PropertyEvents(p) \in Seq(Event)
        /\ Reaches(after(ps), PropertyEvents(p), after(a))
    <3>1. Caught(p) => FieldAt(p) \notin DOMAIN AsFields(full)
      BY <2>4, <2>6, Zenon
    <3>2. /\ PropertyEvents(p) \in Seq(Event)
          /\ Reaches(At(stack, Opened(AsFields(full), HasBook(ps)), NoCapture, output),
                     PropertyEvents(p),
                     At(stack, Opened(Taken(AsFields(full), p), Marked(HasBook(ps), p)),
                        NoCapture, output))
      BY <2>2, <2>6, <3>1, PropRead
    <3> QED BY <2>5, <2>6, <3>2, Zenon DEF full
  <2>8. PropsEvents(a) = PropsEvents(ps) \o PropertyEvents(p)
    BY EventsFollow, Zenon DEF a
  <2> HIDE DEF after
  <2>9. Reaches(read, PropsEvents(a), after(a))
    BY <2>3, <2>7, <2>8, ReachesOn, Zenon
  <2>10. PropsEvents(a) \in Seq(Event)
    BY <2>3, <2>7, <2>8, ConcatProperties, Zenon
  <2> QED BY <2>6, <2>9, <2>10, Zenon
<1> HIDE DEF S
<1>3. \A ps \in Seq(Property) : ps \in S
  BY <1>1, <1>2, Handling!AllBuilt, Zenon
<1> QED BY <1>3 DEF S

\* What a response should come out as is its fields and properties, trimmed.
LEMMA ExpectedIs ==
  \A r : Expected(r) = TrimResponse(Opened(AsFields(Full(r.href, r.props)), HasBook(r.props)))
<1> SUFFICES ASSUME NEW r
             PROVE  Expected(r) =
                      TrimResponse(Opened(AsFields(Full(r.href, r.props)), HasBook(r.props)))
  OBVIOUS
<1> DEFINE place(p) == IF p.inner = "none" THEN FieldOf ELSE HrefOf
           all == ToSet(r.props)
           taken == {p \in all : /\ p.inner \in {"none", "href"}
                                 /\ p.name \in DOMAIN place(p)}
           fields == {<<"href", r.href>>} \cup {<<place(p)[p.name], p.text>> : p \in taken}
           full == {f \in fields : f[2] # <<>>}
           text(n) == (CHOOSE f \in full : f[1] = n)[2]
           names == {f[1] : f \in full}
           book == \E p \in all : p.inner = "addressbook"
<1>1. \A p : (p.inner \in {"none", "href"} /\ p.name \in DOMAIN place(p)) <=> Caught(p)
  BY DEF Caught
<1>2. \A p : place(p)[p.name] = FieldAt(p)
  BY Zenon DEF FieldAt
<1>3. taken = {p \in all : Caught(p)}
  <2> HIDE DEF place
  <2> QED BY <1>1, Zenon
<1>4. full = Full(r.href, r.props)
  <2> HIDE DEF place, taken
  <2>1. fields = {<<"href", r.href>>} \cup {<<FieldAt(p), p.text>> : p \in taken}
    BY <1>2
  <2>2. fields = {<<"href", r.href>>} \cup
                 {<<FieldAt(p), p.text>> : p \in {p \in all : Caught(p)}}
    BY <1>3, <2>1, Zenon
  <2> HIDE DEF fields
  <2> QED BY <2>2, Zenon DEF Full
<1>5. Expected(r) = TrimResponse([open |-> TRUE, fields |-> [n \in names |-> text(n)],
                                  addressbook |-> book])
  BY Zenon DEF Expected
<1>6. [n \in names |-> text(n)] = AsFields(full)
  <2> HIDE DEF full
  <2> QED BY Zenon DEF AsFields
<1>7. book = HasBook(r.props)
  BY Zenon DEF HasBook
<1> HIDE DEF names, text, book, full
<1>8. TrimResponse([open |-> TRUE, fields |-> [n \in names |-> text(n)],
                    addressbook |-> book])
        = TrimResponse(Opened(AsFields(full), HasBook(r.props)))
  BY <1>6, <1>7, Zenon DEF Opened
<1> QED BY <1>4, <1>5, <1>8, Zenon

\* An element within a response has no end of a response within it.
LEMMA InnerElement ==
  ASSUME NEW name \in Names, Ordinary(name), NEW inside \in Seq(Inner)
  PROVE  Element(name, inside) \in Seq(Inner)
<1> DEFINE a == Tag("start", name)
           z == Tag("end", name)
<1>1. a \in Inner /\ z \in Inner
  BY DEF Inner, Event, EndOfResponse, Tag, Ordinary
<1>2. Element(name, inside) = <<a>> \o inside \o <<z>>
  BY Zenon DEF Element, Tag
<1> HIDE DEF a, z
<1> QED BY <1>1, <1>2

\* Neither do properties, one after another.
LEMMA InnerProperties ==
  \A props \in Seq(Property) : Distinct(props) => PropsEvents(props) \in Seq(Inner)
<1>1. ASSUME NEW p, Allowed(p)
      PROVE  PropertyEvents(p) \in Seq(Inner)
  <2>1. Texts(p.text) \in Seq(Inner) /\ p.name \in Names /\ Ordinary(p.name)
    BY <1>1, TextsFollow, Zenon DEF Allowed
  <2>2. "href" \in Names /\ Ordinary("href")
    BY Captures, Zenon DEF Names
  <2> DEFINE e == Tag("empty", "addressbook")
  <2>3. e \in Inner
    BY DEF Inner, Event, EndOfResponse, Tag, Names
  <2>4. Element("href", Texts(p.text)) \in Seq(Inner)
    BY <2>1, <2>2, InnerElement, Zenon
  <2>5. PropertyEvents(p) \in {Element(p.name, Texts(p.text)), Element(p.name, <<e>>),
                               Element(p.name, Element("href", Texts(p.text)))}
    BY <1>1 DEF PropertyEvents, Tag, Allowed
  <2> HIDE DEF e
  <2>6. <<e>> \in Seq(Inner)
    BY <2>3
  <2> QED BY <2>1, <2>4, <2>5, <2>6, InnerElement, Zenon
<1> DEFINE S == {ps \in Seq(Property) : Distinct(ps) => PropsEvents(ps) \in Seq(Inner)}
<1>2. <<>> \in S
  <2>1. PropsEvents(<<>>) = <<>>
    BY EventsFollow, Zenon
  <2>2. \A T : <<>> \in Seq(T)
    OBVIOUS
  <2> QED BY <2>1, <2>2, Zenon
<1>3. ASSUME NEW ps \in Seq(Property), NEW p \in Property, ps \in S
      PROVE  Append(ps, p) \in S
  <2> DEFINE a == Append(ps, p)
  <2>1. a \in Seq(Property) /\ Len(ps) \in Nat /\ DOMAIN ps = 1..Len(ps)
        /\ DOMAIN a = 1..(Len(ps) + 1)
        /\ a[Len(ps) + 1] = p /\ \A i \in DOMAIN ps : a[i] = ps[i]
    BY AppendProperties
  <2>2. PropsEvents(a) = PropsEvents(ps) \o PropertyEvents(p)
    BY EventsFollow, Zenon
  <2> HIDE DEF a
  <2>3. Distinct(a) => Distinct(ps) /\ Allowed(p)
    BY <2>1 DEF Distinct
  <2>4. Distinct(a) => PropsEvents(a) \in Seq(Inner)
    BY <1>1, <1>3, <2>2, <2>3, ConcatProperties, Zenon
  <2> QED BY <2>1, <2>4, Zenon DEF a
<1> HIDE DEF S
<1>4. \A ps \in Seq(Property) : ps \in S
  BY <1>2, <1>3, Handling!AllBuilt, Zenon
<1> QED BY <1>4 DEF S

\* A state is its components.
LEMMA StateIs ==
  ASSUME NEW s, IsState(s), NEW stack, NEW r, NEW capture, NEW output,
         s.stack = stack, s.current = r, s.capture = capture, s.output = output,
         s.failed = FALSE
  PROVE  s = At(stack, r, capture, output)
BY Zenon DEF IsState, At

\* The start of a response, ...
LEMMA ResponseStarts ==
  ASSUME NEW stack, NEW output
  PROVE  Handle(At(stack, NoResponse, NoCapture, output), Tag("start", "response"))
           = At(Append(stack, "response"), Opened(<<>>, FALSE), NoCapture, output)
<1> DEFINE s == At(stack, NoResponse, NoCapture, output)
           e == Tag("start", "response")
           y == Start(s, "response")
           r == NewResponse
<1>1. Handle(s, e) = y
  BY DEF Handle, Tag, At
<1>2. r = Opened(<<>>, FALSE) /\ Mark(r, "response") = r /\ r.open
  BY DEF NewResponse, Opened, Mark
<1>3. CaptureOf("response", stack, NoCapture) = NoCapture
  <2>1. "response" \notin DOMAIN FieldOf /\ "response" # "href"
    BY FieldTable
  <2> QED BY <2>1, Captures, Zenon
<1>4. IsState(s) /\ e \in Event
  BY DEF IsState, At, Event, Tag, Names
<1>5. IsState(y)
  BY <1>1, <1>4, HandleKeeps, Zenon
<1> HIDE DEF r
<1>6. y.current = Mark(r, "response") /\ y.stack = Append(stack, "response")
      /\ y.output = output /\ y.failed = FALSE
  BY DEF Start, At, r
<1>7. y.capture = NoCapture
  BY <1>2, <1>3 DEF Start, At, r
<1> HIDE DEF y
<1>8. y = At(Append(stack, "response"), r, NoCapture, output)
  <2>1. y.current = r
    BY <1>2, <1>6, Zenon
  <2> DEFINE longer == Append(stack, "response")
  <2>2. y.stack = longer /\ y.output = output /\ y.failed = FALSE
    BY <1>6, Zenon
  <2> HIDE DEF longer
  <2>3. y = At(longer, r, NoCapture, output)
    BY <1>5, <1>7, <2>1, <2>2, StateIs, ZenonT(60)
  <2> QED BY <2>3, Zenon DEF longer
<1> QED BY <1>1, <1>2, <1>8, Zenon

\* ... and its end.
LEMMA ResponseEnds ==
  ASSUME NEW stack, stack # <<>>, NEW rest, Front(stack) = rest, NEW r, IsOpen(r), NEW output
  PROVE  Handle(At(stack, r, NoCapture, output), Tag("end", "response"))
           = At(rest, NoResponse, NoCapture, Append(output, TrimResponse(r)))
<1> DEFINE s == At(stack, r, NoCapture, output)
           e == Tag("end", "response")
           y == End(s, "response")
           trimmed == TrimResponse(r)
<1>1. Handle(s, e) = y
  BY DEF Handle, Tag, At
<1>2. IsState(s) /\ e \in Event
  BY DEF IsState, At, Event, Tag, Names
<1>3. IsState(y)
  BY <1>1, <1>2, HandleKeeps, Zenon
<1>4. y.current = NoResponse /\ y.stack = rest /\ y.failed = FALSE
  BY DEF End, At
<1>5. y.capture = NoCapture
  BY DEF End, At
<1>6. y.output = Append(output, trimmed)
  BY DEF End, At, IsOpen
<1> HIDE DEF y, trimmed
<1>7. y = At(rest, NoResponse, NoCapture, Append(output, trimmed))
  BY <1>3, <1>4, <1>5, <1>6, StateIs, ZenonT(60)
<1> QED BY <1>1, <1>7, Zenon DEF trimmed

\* A response as a document has it.
Fit(r) ==
  /\ r \in Response
  /\ r.href \in Seq(Names) /\ r.props \in Seq(Property) /\ Distinct(r.props)

\* A response is read to what it should come out as.
LEMMA ResponseRead ==
  ASSUME NEW bottom \in Seq(Names), NEW r, Fit(r), NEW output
  PROVE  /\ ResponseEvents(r) \in Seq(Event)
         /\ Reaches(At(bottom, NoResponse, NoCapture, output), ResponseEvents(r),
                    At(bottom, NoResponse, NoCapture, Append(output, Expected(r))))
<1> DEFINE within == Append(bottom, "response")
           stat == Append(within, "propstat")
           prop == Append(stat, "prop")
           href == Element("href", Texts(r.href))
           props == PropsEvents(r.props)
           status == Element("status", Texts(<<"x">>))
           inside == Element("prop", props) \o status
           r1 == Opened(AsFields(Full(r.href, <<>>)), FALSE)
           r2 == Opened(AsFields(Full(r.href, r.props)), HasBook(r.props))
           at(stack, x) == At(stack, x, NoCapture, output)
<1>1. /\ {"response", "propstat", "prop", "status", "href"} \subseteq Names
      /\ Ordinary("propstat") /\ Ordinary("prop") /\ Ordinary("status") /\ Ordinary("href")
      /\ "href" \in Ends
  <2>1. "href" \in Ends /\ Ordinary("href")
    BY Captures, Zenon
  <2> QED BY <2>1 DEF Names, Ordinary
<1>2. \A n \in {"propstat", "prop", "status"} : n # "href" /\ n \notin DOMAIN FieldOf
  BY FieldTable
<1>3. \A n \in {"propstat", "prop", "status"} : \A stack :
        CaptureOf(n, stack, NoCapture) = NoCapture
  BY <1>2, Captures, Zenon
<1>4. /\ within \in Seq(Names) /\ stat \in Seq(Names) /\ prop \in Seq(Names)
      /\ within # <<>> /\ Front(within) = bottom /\ Last(within) = "response"
      /\ prop # <<>> /\ Last(prop) = "prop"
  BY <1>1, Closing, ZenonT(60)
<1>5. IsOpen(r1) /\ IsOpen(r2)
  BY OpenedIsOpen, Zenon
<1>6. r.href \in Seq(Names) /\ r.props \in Seq(Property) /\ Distinct(r.props)
  BY Zenon DEF Fit
<1> HIDE DEF within, stat, prop
<1>7. href \in Seq(Event) /\ Reaches(at(within, Opened(<<>>, FALSE)), href, at(within, r1))
  <2> DEFINE none == <<>>
  <2>1. IsFcn(none) /\ "href" \notin DOMAIN none
    BY DEF IsFcn
  <2>2. CaptureOf("href", within, NoCapture) = "href" /\ "href" # NoCapture
    <3>1. "response" \in DOMAIN HrefOf /\ HrefOf["response"] = "href"
      BY FieldTable
    <3> QED BY <1>4, <3>1, Captures, Zenon
  <2>3. AsFields(Full(r.href, <<>>)) = WithText(none, "href", r.href)
    <3>1. Full(r.href, <<>>) = Grown({}, "href", r.href)
      BY FullGrows, Zenon
    <3>2. Functional({}) /\ "href" \notin {f[1] : f \in {}}
      BY DEF Functional
    <3>3. AsFields({}) = none
      BY DEF AsFields
    <3> QED BY <3>1, <3>2, <3>3, FieldsGrow
  <2> HIDE DEF none
  <2>4. href \in Seq(Event)
        /\ Reaches(At(within, Opened(none, FALSE), NoCapture, output), href,
                   At(within, Opened(WithText(none, "href", r.href), FALSE),
                      NoCapture, output))
    BY <1>1, <1>4, <1>6, <2>1, <2>2, FieldRead
  <2> QED BY <2>3, <2>4, Zenon DEF none
<1>8. props \in Seq(Event) /\ Reaches(at(prop, r1), props, at(prop, r2))
  <2>1. Last(prop) \notin DOMAIN HrefOf
    BY <1>4, FieldTable
  <2> QED BY <1>4, <1>6, <2>1, PropsRead, Zenon
<1> HIDE DEF props, r1, r2
<1>9. Element("prop", props) \in Seq(Event)
      /\ Reaches(at(stat, r1), Element("prop", props), at(stat, r2))
  BY <1>1, <1>3, <1>4, <1>5, <1>8, IdleRead DEF prop
<1>10. status \in Seq(Event) /\ Reaches(at(stat, r2), status, at(stat, r2))
  <2> DEFINE x == <<"x">>
  <2>1. x \in Seq(Names)
    <3>1. "x" \in Names
      BY DEF Names
    <3> QED BY <3>1
  <2> HIDE DEF x
  <2>2. Element("status", Texts(x)) \in Seq(Event)
        /\ Reaches(at(stat, r2), Element("status", Texts(x)), at(stat, r2))
    BY <1>1, <1>3, <1>4, <1>5, <2>1, IdleText
  <2> QED BY <2>2, Zenon DEF x
<1> HIDE DEF status, href
<1>11. inside \in Seq(Event) /\ Reaches(at(stat, r1), inside, at(stat, r2))
  BY <1>9, <1>10, ReachesOn, ConcatProperties, Zenon
<1> HIDE DEF inside
<1>12. Element("propstat", inside) \in Seq(Event)
       /\ Reaches(at(within, r1), Element("propstat", inside), at(within, r2))
  BY <1>1, <1>3, <1>4, <1>5, <1>11, IdleRead DEF stat
<1> DEFINE all == href \o Element("propstat", inside)
<1>13. all \in Seq(Event) /\ Reaches(at(within, Opened(<<>>, FALSE)), all, at(within, r2))
  BY <1>7, <1>12, ReachesOn, ConcatProperties, Zenon
<1>14. ResponseEvents(r) = Element("response", all)
  BY EventsFollow, Zenon DEF all, inside, props, status, href
<1> HIDE DEF all
<1>15. Handle(at(bottom, NoResponse), Tag("start", "response"))
         = at(within, Opened(<<>>, FALSE))
  BY ResponseStarts, Zenon DEF within
<1>16. Handle(at(within, r2), Tag("end", "response"))
         = At(bottom, NoResponse, NoCapture, Append(output, TrimResponse(r2)))
  BY <1>4, <1>5, ResponseEnds
<1>17. TrimResponse(r2) = Expected(r)
  BY ExpectedIs, Zenon DEF r2
<1> HIDE DEF at
<1>18. "response" \in Names
  BY <1>1, Zenon
<1>19. /\ Element("response", all) \in Seq(Event)
       /\ Reaches(at(bottom, NoResponse), Element("response", all),
                  At(bottom, NoResponse, NoCapture, Append(output, TrimResponse(r2))))
  BY <1>13, <1>15, <1>16, <1>18, ReachesElement
<1> QED BY <1>14, <1>17, <1>19, Zenon DEF at

\* Nothing but its last event ends a response.
LEMMA ResponseBody ==
  ASSUME NEW r, Fit(r)
  PROVE  \E body \in Seq(Inner) : ResponseEvents(r) = Append(body, EndOfResponse)
<1> DEFINE href == Element("href", Texts(r.href))
           props == PropsEvents(r.props)
           status == Element("status", Texts(<<"x">>))
           all == href \o Element("propstat", Element("prop", props) \o status)
           a == Tag("start", "response")
           body == <<a>> \o all
<1>1. /\ {"response", "propstat", "prop", "status", "href"} \subseteq Names
      /\ Ordinary("propstat") /\ Ordinary("prop") /\ Ordinary("status") /\ Ordinary("href")
  BY DEF Names, Ordinary
<1>2. r.href \in Seq(Names) /\ r.props \in Seq(Property) /\ Distinct(r.props)
  BY Zenon DEF Fit
<1>3. href \in Seq(Inner)
  BY <1>1, <1>2, TextsFollow, InnerElement, Zenon
<1>4. props \in Seq(Inner)
  BY <1>2, InnerProperties, Zenon
<1>5. status \in Seq(Inner)
  <2> DEFINE x == <<"x">>
  <2>1. x \in Seq(Names)
    <3>1. "x" \in Names
      BY DEF Names
    <3> QED BY <3>1
  <2> HIDE DEF x
  <2>2. Element("status", Texts(x)) \in Seq(Inner)
    BY <1>1, <2>1, TextsFollow, InnerElement, Zenon
  <2> QED BY <2>2, Zenon DEF x
<1> HIDE DEF href, props, status
<1>6. Element("prop", props) \in Seq(Inner)
  BY <1>1, <1>4, InnerElement, Zenon
<1>7. Element("propstat", Element("prop", props) \o status) \in Seq(Inner)
  <2>1. Element("prop", props) \o status \in Seq(Inner)
    BY <1>5, <1>6, ConcatProperties, Zenon
  <2> QED BY <1>1, <2>1, InnerElement, Zenon
<1>8. all \in Seq(Inner)
  BY <1>3, <1>7, ConcatProperties, Zenon
<1>9. ResponseEvents(r) = Element("response", all)
  BY EventsFollow, Zenon DEF props, status, href
<1>10. a \in Inner
  BY DEF Inner, Event, EndOfResponse, Tag, Names
<1>11. Element("response", all) = <<a>> \o all \o <<EndOfResponse>>
  BY Zenon DEF Element, Tag, EndOfResponse
<1> HIDE DEF all, a
<1>12. body \in Seq(Inner)
  BY <1>8, <1>10
<1>13. <<a>> \o all \o <<EndOfResponse>> = Append(body, EndOfResponse)
  BY <1>8, <1>10, <1>12
<1> QED BY <1>9, <1>11, <1>12, <1>13, Zenon

\* The ends of responses in a part of a document.
EndsIn(events) == Cardinality({i \in DOMAIN events : events[i] = EndOfResponse})

\* Only an end of a response counts.
LEMMA EndsCount ==
  /\ EndsIn(<<>>) = 0
  /\ \A a \in Seq(Event) : EndsIn(a) \in Nat
  /\ \A a \in Seq(Event) : \A e \in Event :
       EndsIn(Append(a, e)) = IF e = EndOfResponse THEN EndsIn(a) + 1 ELSE EndsIn(a)
  /\ \A a \in Seq(Event) : \A b \in Seq(Inner) : EndsIn(a \o b) = EndsIn(a)
<1> DEFINE places(a) == {i \in DOMAIN a : a[i] = EndOfResponse}
<1>1. \A a : EndsIn(a) = Cardinality(places(a))
  BY Zenon DEF EndsIn
<1>2. EndsIn(<<>>) = 0
  <2>1. places(<<>>) = {}
    OBVIOUS
  <2> QED BY <1>1, <2>1, FS_EmptySet
<1>3. \A a \in Seq(Event) : IsFiniteSet(places(a))
  <2> SUFFICES ASSUME NEW a \in Seq(Event)
               PROVE  IsFiniteSet(places(a))
    OBVIOUS
  <2>1. places(a) \subseteq 1..Len(a) /\ Len(a) \in Nat
    OBVIOUS
  <2> HIDE DEF places
  <2>2. IsFiniteSet(1..Len(a))
    BY <2>1, FS_Interval
  <2> QED BY <2>1, <2>2, FS_Subset
<1>4. \A a \in Seq(Event) : EndsIn(a) \in Nat
  <2> HIDE DEF places
  <2> QED BY <1>1, <1>3, FS_CardinalityType
<1>5. ASSUME NEW a \in Seq(Event), NEW e \in Event
      PROVE  EndsIn(Append(a, e)) = IF e = EndOfResponse THEN EndsIn(a) + 1 ELSE EndsIn(a)
  <2> DEFINE n == Len(a) + 1
             b == Append(a, e)
  <2>1. /\ DOMAIN b = DOMAIN a \cup {n} /\ n \notin DOMAIN a
        /\ b[n] = e /\ \A i \in DOMAIN a : b[i] = a[i]
    BY AppendProperties
  <2> HIDE DEF n, b
  <2>2. places(b) = IF e = EndOfResponse THEN places(a) \cup {n} ELSE places(a)
    BY <2>1
  <2>3. n \notin places(a)
    BY <2>1, Zenon
  <2>4. IsFiniteSet(places(a))
    BY <1>3, Zenon
  <2> HIDE DEF places
  <2>5. Cardinality(places(a) \cup {n}) = Cardinality(places(a)) + 1
    BY <2>3, <2>4, FS_AddElement
  <2>6. EndsIn(b) = Cardinality(places(b)) /\ EndsIn(a) = Cardinality(places(a))
    BY <1>1, Zenon
  <2> QED BY <2>2, <2>5, <2>6, Zenon DEF b
<1>6. ASSUME NEW a \in Seq(Event)
      PROVE  \A b \in Seq(Inner) : EndsIn(a \o b) = EndsIn(a)
  <2> DEFINE S == {b \in Seq(Inner) : EndsIn(a \o b) = EndsIn(a)}
  <2>1. <<>> \in S
    <3>1. a \o <<>> = a /\ \A T : <<>> \in Seq(T)
      OBVIOUS
    <3> QED BY <3>1, Zenon
  <2>2. ASSUME NEW b \in Seq(Inner), NEW e \in Inner, b \in S
        PROVE  Append(b, e) \in S
    <3>1. e \in Event /\ e # EndOfResponse
      BY Zenon DEF Inner
    <3>2. a \o b \in Seq(Event) /\ Append(b, e) \in Seq(Inner)
      BY InnerEvents, ConcatProperties, AppendProperties
    <3>3. a \o Append(b, e) = Append(a \o b, e)
      OBVIOUS
    <3>4. EndsIn(Append(a \o b, e)) = EndsIn(a \o b)
      BY <1>5, <3>1, <3>2, Zenon
    <3> QED BY <2>2, <3>2, <3>3, <3>4, Zenon
  <2> HIDE DEF S
  <2>3. \A b \in Seq(Inner) : b \in S
    BY <2>1, <2>2, Handling!AllBuilt, Zenon
  <2> QED BY <2>3 DEF S
<1> QED BY <1>2, <1>4, <1>5, <1>6, Zenon

\* The beginnings of one sequence and then another.
LEMMA Beginnings ==
  ASSUME NEW T, NEW a \in Seq(T), NEW b \in Seq(T), NEW n \in 0..Len(a \o b)
  PROVE  \/ n \in 0..Len(a) /\ SubSeq(a \o b, 1, n) = SubSeq(a, 1, n)
         \/ \E m \in 0..Len(b) : SubSeq(a \o b, 1, n) = a \o SubSeq(b, 1, m)
<1> DEFINE c == a \o b
           p == SubSeq(c, 1, n)
<1>1. /\ c \in Seq(T) /\ Len(c) = Len(a) + Len(b) /\ Len(a) \in Nat /\ Len(b) \in Nat
      /\ \A i \in 1..Len(c) : c[i] = IF i <= Len(a) THEN a[i] ELSE b[i - Len(a)]
  BY ConcatProperties
<1>2. p \in Seq(T) /\ Len(p) = n /\ \A i \in 1..n : p[i] = c[i]
  BY <1>1
<1> HIDE DEF c, p
<1>3. CASE n <= Len(a)
  <2> DEFINE q == SubSeq(a, 1, n)
  <2>1. n \in 0..Len(a)
    BY <1>1, <1>3
  <2>2. q \in Seq(T) /\ Len(q) = n /\ \A i \in 1..n : q[i] = a[i]
    BY <1>3, <2>1
  <2> HIDE DEF q
  <2>3. p = q
    <3>1. \A i \in 1..n : p[i] = q[i]
      BY <1>1, <1>2, <1>3, <2>1, <2>2 DEF c
    <3> QED BY <1>2, <2>2, <3>1, SeqEqual
  <2> QED BY <2>1, <2>3 DEF p, q, c
<1>4. CASE ~(n <= Len(a))
  <2> DEFINE m == n - Len(a)
             d == SubSeq(b, 1, m)
             q == a \o d
  <2>1. m \in 0..Len(b) /\ n = Len(a) + m
    BY <1>1, <1>4 DEF c
  <2> HIDE DEF m
  <2>2. d \in Seq(T) /\ Len(d) = m /\ \A i \in 1..m : d[i] = b[i]
    BY <2>1
  <2> HIDE DEF d
  <2>3. /\ q \in Seq(T) /\ Len(q) = n
        /\ \A i \in 1..n : q[i] = IF i <= Len(a) THEN a[i] ELSE d[i - Len(a)]
    <3>1. /\ q \in Seq(T) /\ Len(q) = Len(a) + Len(d)
          /\ \A i \in 1..(Len(a) + Len(d)) : q[i] = IF i <= Len(a) THEN a[i] ELSE d[i - Len(a)]
      BY <2>2, ConcatProperties, Zenon
    <3> HIDE DEF q
    <3> QED BY <2>1, <2>2, <3>1
  <2> HIDE DEF q
  <2>4. ASSUME NEW i \in 1..n
        PROVE  p[i] = q[i]
    <3>1. i \in 1..Len(c) /\ i \in Nat
      BY <1>1, <2>1 DEF c
    <3>2. CASE i <= Len(a)
      BY <1>1, <1>2, <2>3, <3>1, <3>2
    <3>3. CASE ~(i <= Len(a))
      <4>1. i - Len(a) \in 1..m
        BY <1>1, <2>1, <3>1, <3>3
      <4> QED BY <1>1, <1>2, <2>2, <2>3, <3>1, <3>3, <4>1
    <3> QED BY <3>2, <3>3
  <2>5. p = q
    BY <1>2, <2>3, <2>4, SeqEqual
  <2> QED BY <2>1, <2>5 DEF p, q, d, c
<1> QED BY <1>3, <1>4

\* The first responses of a document, as they should come out.
First(document, n) == [i \in 1..n |-> Expected(document[i])]

\* What has been read of a document is right, or the read has failed.
Right(events, document) ==
  LET s == Read(Begin, events)
  IN  \/ s.failed
      \/ /\ EndsIn(events) <= Len(document)
         /\ s.output = First(document, EndsIn(events))

\* It stays right until the next response ends, ...
LEMMA RightOn ==
  ASSUME NEW document, NEW a \in Seq(Event), Right(a, document), NEW b \in Seq(Inner)
  PROVE  Right(a \o b, document)
<1> DEFINE s == Read(Begin, a)
           y == Read(Begin, a \o b)
<1>1. b \in Seq(Event)
  BY InnerEvents, Zenon
<1>2. y = Read(s, b)
  BY <1>1, ReadFollows, Zenon
<1>3. EndsIn(a \o b) = EndsIn(a)
  BY EndsCount, Zenon
<1>4. IsState(s)
  <2>1. IsState(Begin)
    BY DEF IsState, Begin
  <2> QED BY <2>1, ReadKeeps, Zenon
<1> HIDE DEF s, y
<1>5. y.output = s.output
  BY <1>2, <1>4, ReadKeeps, Zenon
<1>6. s.failed => y = s
  BY <1>1, <1>2, FailedStays, Zenon
<1> QED BY <1>3, <1>5, <1>6, Zenon DEF Right, s, y

\* ... and for a longer document.
LEMMA RightLonger ==
  ASSUME NEW T, NEW document \in Seq(T), NEW r \in T, NEW a \in Seq(Event), Right(a, document)
  PROVE  Right(a, Append(document, r))
<1> DEFINE longer == Append(document, r)
           n == EndsIn(a)
<1>1. n \in Nat
  BY EndsCount, Zenon
<1>2. Len(longer) = Len(document) + 1 /\ Len(document) \in Nat
      /\ \A i \in 1..Len(document) : longer[i] = document[i]
  BY AppendProperties
<1> HIDE DEF n, longer
<1>3. CASE n <= Len(document)
  <2>1. n <= Len(longer)
    BY <1>1, <1>2, <1>3
  <2>2. First(longer, n) = First(document, n)
    BY <1>1, <1>2, <1>3 DEF First
  <2> QED BY <1>3, <2>1, <2>2, Zenon DEF Right, n, longer
<1> QED BY <1>3, Zenon DEF Right, n, longer

\* The events of a document, but for the last.
Opening(document) == <<Tag("start", "multistatus")>> \o BookEvents(document)

\* However much of it is read.
ReadRight(events, document) ==
  \A n \in 0..Len(events) : Right(SubSeq(events, 1, n), document)

\* Events that end no response keep it right.
LEMMA Continued ==
  ASSUME NEW document, NEW a \in Seq(Event), ReadRight(a, document), NEW b \in Seq(Inner)
  PROVE  a \o b \in Seq(Event) /\ ReadRight(a \o b, document)
<1>1. b \in Seq(Event)
  BY InnerEvents, Zenon
<1>2. Right(a, document)
  <2>1. SubSeq(a, 1, Len(a)) = a /\ Len(a) \in 0..Len(a)
    OBVIOUS
  <2> QED BY <2>1, Zenon DEF ReadRight
<1>3. ASSUME NEW n \in 0..Len(a \o b)
      PROVE  Right(SubSeq(a \o b, 1, n), document)
  <2>1. CASE n \in 0..Len(a) /\ SubSeq(a \o b, 1, n) = SubSeq(a, 1, n)
    BY <2>1, Zenon DEF ReadRight
  <2>2. ASSUME NEW m \in 0..Len(b), SubSeq(a \o b, 1, n) = a \o SubSeq(b, 1, m)
        PROVE  Right(SubSeq(a \o b, 1, n), document)
    <3>1. SubSeq(b, 1, m) \in Seq(Inner)
      OBVIOUS
    <3> QED BY <1>2, <2>2, <3>1, RightOn, Zenon
  <2> QED BY <1>1, <2>1, <2>2, Beginnings
<1> QED BY <1>1, <1>3, ConcatProperties, Zenon DEF ReadRight

\* Responses are read one after another.
LEMMA DocumentRead ==
  \A document \in Seq(Response) : (\A i \in DOMAIN document : Fit(document[i])) =>
    /\ Opening(document) \in Seq(Event) /\ EndsIn(Opening(document)) = Len(document)
    /\ ReadRight(Opening(document), document)
    /\ Reaches(Begin, Opening(document),
               At(<<"multistatus">>, NoResponse, NoCapture, First(document, Len(document))))
<1> DEFINE bottom == <<"multistatus">>
           open == <<Tag("start", "multistatus")>>
           after(d) == At(bottom, NoResponse, NoCapture, First(d, Len(d)))
           Good(d) == /\ BookEvents(d) \in Seq(Event)
                      /\ Opening(d) \in Seq(Event) /\ EndsIn(Opening(d)) = Len(d)
                      /\ ReadRight(Opening(d), d)
                      /\ Reaches(Begin, Opening(d), after(d))
           AllFit(d) == \A i \in DOMAIN d : Fit(d[i])
           S == {d \in Seq(Response) : AllFit(d) => Good(d)}
<1>0. bottom \in Seq(Names) /\ \A T : <<>> \in Seq(T)
  <2>1. "multistatus" \in Names
    BY DEF Names
  <2> QED BY <2>1
<1>1. <<>> \in S
  <2> DEFINE e == Tag("start", "multistatus")
  <2>1. e \in Inner /\ e \in Event
    BY DEF Inner, Event, EndOfResponse, Tag, Names
  <2>2. Opening(<<>>) = <<e>>
    <3>1. BookEvents(<<>>) = <<>>
      BY EventsFollow, Zenon
    <3>2. Opening(<<>>) = <<e>> \o <<>>
      BY <3>1, Zenon DEF Opening
    <3> HIDE DEF e
    <3>3. <<e>> \o <<>> = <<e>>
      OBVIOUS
    <3> QED BY <3>2, <3>3, Zenon DEF e
  <2>3. First(<<>>, 0) = <<>> /\ Len(<<>>) = 0
    BY DEF First
  <2>4. Handle(Begin, e) = At(bottom, NoResponse, NoCapture, <<>>)
    <3> DEFINE y == Start(Begin, "multistatus")
    <3>1. Handle(Begin, e) = y
      BY DEF Handle, Tag, Begin
    <3>2. IsState(Begin)
      BY DEF IsState, Begin
    <3>3. IsState(y)
      BY <2>1, <3>1, <3>2, HandleKeeps, Zenon
    <3>4. ~NoResponse.open
      BY DEF NoResponse, NewResponse
    <3>5. y.stack = bottom /\ y.output = <<>> /\ y.failed = FALSE
      BY DEF Start, Begin
    <3>6. Mark(NoResponse, "multistatus") = NoResponse
      BY DEF Mark
    <3>7. y.current = NoResponse
      BY <3>6 DEF Start, Begin
    <3>8. y.capture = NoCapture
      BY <3>4, <3>6 DEF Start, Begin
    <3> DEFINE none == <<>>
    <3>9. y.output = none
      BY <3>5, Zenon
    <3> HIDE DEF y, bottom, none
    <3>10. y = At(bottom, NoResponse, NoCapture, none)
      BY <3>3, <3>5, <3>7, <3>8, <3>9, StateIs, Zenon
    <3> QED BY <3>1, <3>10, Zenon DEF none
  <2> HIDE DEF e, bottom
  <2>5. Reaches(Begin, Opening(<<>>), after(<<>>))
    BY <2>1, <2>2, <2>3, <2>4, ReachesOne, Zenon
  <2>6. <<>> \in Seq(Event) /\ <<e>> \in Seq(Inner) /\ <<>> \o <<e>> = <<e>>
    BY <2>1
  <2>7. EndsIn(<<e>>) = 0
    BY <2>6, EndsCount
  <2>8. ReadRight(<<>>, <<>>)
    <3>1. Read(Begin, <<>>) = Begin
      BY ReadFollows, Zenon
    <3>2. Begin.output = <<>>
      BY DEF Begin
    <3>3. Right(<<>>, <<>>)
      BY <2>3, <3>1, <3>2, EndsCount DEF Right
    <3>4. Len(<<>>) = 0 /\ SubSeq(<<>>, 1, 0) = <<>>
      OBVIOUS
    <3>5. \A n \in 0..0 : n = 0
      OBVIOUS
    <3> QED BY <3>3, <3>4, <3>5, Zenon DEF ReadRight
  <2>9. Opening(<<>>) \in Seq(Event) /\ ReadRight(Opening(<<>>), <<>>)
    BY <2>2, <2>6, <2>8, Continued, Zenon
  <2>10. Good(<<>>)
    BY <1>0, EventsFollow, <2>2, <2>3, <2>5, <2>7, <2>9, Zenon
  <2> HIDE DEF Good
  <2> QED BY <1>0, <2>10, Zenon
<1>2. ASSUME NEW d \in Seq(Response), NEW r \in Response, d \in S
      PROVE  Append(d, r) \in S
  <2> DEFINE longer == Append(d, r)
             ev == Opening(d)
             n == Len(d)
             new == ResponseEvents(r)
  <2>1. /\ longer \in Seq(Response) /\ n \in Nat /\ DOMAIN d = 1..n
        /\ DOMAIN longer = 1..(n + 1) /\ Len(longer) = n + 1
        /\ longer[n + 1] = r /\ \A i \in DOMAIN d : longer[i] = d[i]
    BY AppendProperties
  <2> HIDE DEF longer, bottom
  <2> SUFFICES ASSUME AllFit(longer)
               PROVE  Good(longer)
    BY <2>1, Zenon DEF longer
  <2>2. AllFit(d) /\ Fit(r)
    BY <2>1
  <2>3. Good(d)
    BY <1>2, <2>2, Zenon
  <2>4. /\ new \in Seq(Event)
        /\ Reaches(after(d), new,
                   At(bottom, NoResponse, NoCapture, Append(First(d, n), Expected(r))))
    BY <1>0, <2>2, ResponseRead, Zenon
  <2>5. Opening(longer) = ev \o new
    <3>1. BookEvents(longer) = BookEvents(d) \o new
      BY EventsFollow, Zenon DEF longer
    <3>2. open \in Seq(Event) /\ BookEvents(d) \in Seq(Event)
      <4>1. Tag("start", "multistatus") \in Event
        BY DEF Event, Tag, Names
      <4> QED BY <2>3, <4>1
    <3>3. open \o (BookEvents(d) \o new) = (open \o BookEvents(d)) \o new
      BY <2>4, <3>2
    <3> QED BY <3>1, <3>3, Zenon DEF Opening
  <2>6. Append(First(d, n), Expected(r)) = First(longer, n + 1)
    BY <2>1 DEF First
  <2>7. Reaches(Begin, Opening(longer), after(longer))
    BY <2>1, <2>3, <2>4, <2>5, <2>6, ReachesOn, Zenon
  <2>8. PICK body \in Seq(Inner) : new = Append(body, EndOfResponse)
    BY <2>2, ResponseBody, Zenon
  <2>9. /\ ev \o body \in Seq(Event) /\ EndOfResponse \in Event
        /\ ev \o new = Append(ev \o body, EndOfResponse)
    <3>1. EndOfResponse \in Event
      BY DEF Event, EndOfResponse, Names
    <3>2. body \in Seq(Event)
      BY InnerEvents, Zenon
    <3> HIDE DEF ev, new
    <3> QED BY <2>3, <2>8, <3>1, <3>2 DEF ev
  <2>10. EndsIn(Opening(longer)) = n + 1
    <3>1. EndsIn(ev \o body) = n
      BY <2>3, EndsCount, Zenon
    <3>2. EndsIn(Append(ev \o body, EndOfResponse)) = EndsIn(ev \o body) + 1
      BY <2>9, EndsCount, Zenon
    <3> QED BY <2>5, <2>9, <3>1, <3>2, Zenon
  <2>11. Opening(longer) \in Seq(Event)
    BY <2>3, <2>5, <2>4, ConcatProperties, Zenon
  <2>12. ReadRight(Opening(longer), longer)
    <3>1. ev \o body \in Seq(Event) /\ ReadRight(ev \o body, d)
      BY <2>3, Continued, Zenon
    <3> DEFINE a == ev \o body
               all == Append(a, EndOfResponse)
    <3>2. all = Opening(longer)
      BY <2>5, <2>9, Zenon
    <3>3. Right(all, longer)
      <4>1. Read(Begin, all).failed \/ Read(Begin, all).output = First(longer, n + 1)
        <5>1. Read(Begin, all).failed \/ Read(Begin, all) = after(longer)
          BY <2>7, <3>2, Zenon DEF Reaches, Comes
        <5>2. after(longer).output = First(longer, n + 1)
          BY <2>1 DEF At
        <5> QED BY <5>1, <5>2, Zenon
      <4>2. EndsIn(all) = n + 1 /\ n + 1 <= Len(longer)
        BY <2>1, <2>10, <3>2
      <4> QED BY <4>1, <4>2, Zenon DEF Right
    <3>4. ASSUME NEW m \in 0..Len(all)
          PROVE  Right(SubSeq(all, 1, m), longer)
      <4>1. CASE m = Len(all)
        <5>1. SubSeq(all, 1, m) = all
          BY <2>9, <4>1
        <5> QED BY <3>3, <5>1, Zenon
      <4>2. CASE m # Len(all)
        <5>1. /\ m \in 0..Len(a) /\ SubSeq(all, 1, m) = SubSeq(a, 1, m)
              /\ SubSeq(a, 1, m) \in Seq(Event)
          <6> HIDE DEF a
          <6>1. a \in Seq(Event) /\ EndOfResponse \in Event
            BY <2>9, Zenon DEF a
          <6>2. Len(all) = Len(a) + 1 /\ Len(a) \in Nat
            BY <6>1, AppendProperties
          <6>3. m \in 0..Len(a)
            BY <4>2, <6>2
          <6> QED BY <6>1, <6>3
        <5>2. Right(SubSeq(a, 1, m), d)
          BY <3>1, <5>1, Zenon DEF ReadRight
        <5> QED BY <5>1, <5>2, RightLonger, Zenon DEF longer
      <4> QED BY <4>1, <4>2
    <3> QED BY <3>2, <3>4, Zenon DEF ReadRight
  <2>13. BookEvents(longer) \in Seq(Event)
    <3>1. BookEvents(longer) = BookEvents(d) \o new
      BY EventsFollow, Zenon DEF longer
    <3> QED BY <2>3, <2>4, <3>1, ConcatProperties, Zenon
  <2> QED BY <2>1, <2>7, <2>10, <2>11, <2>12, <2>13, Zenon
<1> HIDE DEF S
<1>3. \A d \in Seq(Response) : d \in S
  BY <1>1, <1>2, Handling!AllBuilt, Zenon
<1> QED BY <1>3, Zenon DEF S

\* The documents are what has been read above.
LEMMA DocumentsFit ==
  ASSUME NEW document \in Documents
  PROVE  document \in Seq(Response) /\ \A i \in DOMAIN document : Fit(document[i])
<1>1. document \in Seq(Response)
  BY DocumentsAssumption, Zenon
<1>2. ASSUME NEW i \in DOMAIN document
      PROVE  Fit(document[i])
  <2> DEFINE r == document[i]
             props == r.props
  <2>1. r \in Response
    BY <1>1
  <2>2. \A j, k \in DOMAIN props :
          /\ props[j].name = props[k].name => j = k
          /\ props[j].inner # "none" => props[j].name \notin DOMAIN FieldOf
    BY DocumentsAssumption, Zenon
  <2> HIDE DEF r
  <2>3. r.href \in Seq(STRING) /\ props \in Seq(Property)
    BY <2>1 DEF Response
  <2>4. Seq(STRING) \subseteq Seq(Names)
    <3>1. STRING \subseteq Names
      BY Zenon DEF Names
    <3> HIDE DEF props
    <3> QED BY <3>1, SeqMonotonic, Zenon
  <2> HIDE DEF props
  <2>5. ASSUME NEW p \in Property
        PROVE  /\ p.name \in Names /\ Ordinary(p.name) /\ p.text \in Seq(Names)
               /\ p.inner \in {"none", "addressbook", "href"}
    <3> DEFINE T == STRING
               texts == Seq(T)
    <3>1. p \in [name : T \ {"response", "addressbook"},
                 inner : {"none", "addressbook", "href"}, text : texts]
      BY Zenon DEF Property
    <3> HIDE DEF T, texts
    <3>2. /\ p.name \in T /\ p.name \notin {"response", "addressbook"} /\ p.text \in texts
          /\ p.inner \in {"none", "addressbook", "href"}
      BY <3>1
    <3> QED BY <2>4, <3>2, Zenon DEF Ordinary, Names, T, texts
  <2>6. \A j \in DOMAIN props : props[j] \in Property
    BY <2>3
  <2>7. Distinct(props)
    BY <2>2, <2>5, <2>6, Zenon DEF Distinct, Allowed
  <2> QED BY <2>1, <2>3, <2>4, <2>7, Zenon DEF Fit, props, r
<1> QED BY <1>1, <1>2, Zenon

\* However much is read of a document, ...
LEMMA PartRead ==
  ASSUME NEW document \in Documents, NEW cut \in 0..Len(Events(document))
  PROVE  /\ SubSeq(Events(document), 1, cut) \in Seq(Event)
         /\ Right(SubSeq(Events(document), 1, cut), document)
<1> DEFINE e == Tag("end", "multistatus")
           ev == Opening(document)
<1>1. ev \in Seq(Event) /\ ReadRight(ev, document)
  BY DocumentsFit, DocumentRead, Zenon
<1>2. <<e>> \in Seq(Inner)
  <2>1. e \in Inner
    BY DEF Inner, Event, EndOfResponse, Tag, Names
  <2> QED BY <2>1
<1>3. Events(document) = ev \o <<e>>
  <2>1. Events(document) = Element("multistatus", BookEvents(document))
    BY EventsFollow, Zenon
  <2> QED BY <2>1, Zenon DEF Element, Opening, Tag
<1> HIDE DEF e, ev
<1>4. ev \o <<e>> \in Seq(Event) /\ ReadRight(ev \o <<e>>, document)
  BY <1>1, <1>2, Continued, Zenon
<1>5. Events(document) \in Seq(Event) /\ ReadRight(Events(document), document)
  BY <1>3, <1>4, Zenon
<1>6. SubSeq(Events(document), 1, cut) \in Seq(Event)
  BY <1>5
<1> QED BY <1>5, <1>6, Zenon DEF ReadRight

\* ... and whatever follows it that is not XML.
LEMMA Garbling ==
  ASSUME NEW a \in Seq(Event)
  PROVE  ParseMultistatus(Append(a, [kind |-> "garbled"])) = {}
<1> DEFINE g == [kind |-> "garbled"]
           s == Read(Begin, a)
           T == Event \cup {g}
<1>1. Read(Begin, Append(a, g)) = Handle(s, g)
  <2>1. a \in Seq(T)
    <3>1. Event \subseteq T
      BY Zenon
    <3> HIDE DEF T
    <3> QED BY <3>1, SeqMonotonic, Zenon
  <2>2. g \in T
    BY Zenon
  <2> HIDE DEF T, g
  <2> QED BY <2>1, <2>2, Handling!LoopUnrolls DEF Read, HandleOn
<1>2. IsState(s)
  <2>1. IsState(Begin)
    BY DEF IsState, Begin
  <2> QED BY <2>1, ReadKeeps, Zenon
<1> HIDE DEF s
<1>3. Handle(s, g).failed
  <2>1. CASE s.failed
    BY <2>1, Zenon DEF Handle
  <2>2. CASE ~s.failed
    <3>1. Handle(s, g) = [s EXCEPT !.failed = TRUE]
      BY <2>2 DEF Handle
    <3>2. [s EXCEPT !.failed = TRUE].failed
      BY <1>2 DEF IsState
    <3> QED BY <3>1, <3>2, Zenon
  <2> QED BY <2>1, <2>2, Zenon
<1> HIDE DEF g
<1>4. Read(Begin, Append(a, g)).failed
  BY <1>1, <1>3, Zenon
<1> QED BY <1>4, ReadFollows, Zenon DEF g

\* parse_multistatus: whatever the document, and wherever it ends, the
\* responses that were read are those of the document, each with its own
\* fields, unless a text could not be decoded or the XML is broken.
THEOREM MultistatusRead == Spec => []ResponsesRead
<1>1. Init => ResponsesRead
  BY DEF Init, ResponsesRead
<1>2. ASSUME ResponsesRead, [Next]_vars PROVE ResponsesRead'
  <2>1. CASE ReadMultistatus
    <3>0. PICK document \in Documents, garbled \in BOOLEAN :
            \E cut \in 0..Len(Events(document)) :
              Call("multistatus",
                   [document |-> document, cut |-> cut, garbled |-> garbled],
                   ParseMultistatus(IF garbled
                                    THEN Append(SubSeq(Events(document), 1, cut),
                                                [kind |-> "garbled"])
                                    ELSE SubSeq(Events(document), 1, cut)))
      BY <2>1, Zenon DEF ReadMultistatus
    <3>1. PICK cut \in 0..Len(Events(document)) :
            Call("multistatus",
                 [document |-> document, cut |-> cut, garbled |-> garbled],
                 ParseMultistatus(IF garbled
                                  THEN Append(SubSeq(Events(document), 1, cut),
                                              [kind |-> "garbled"])
                                  ELSE SubSeq(Events(document), 1, cut)))
      BY <3>0, Zenon
    <3> DEFINE read == SubSeq(Events(document), 1, cut)
    <3>2. given' = [document |-> document, cut |-> cut, garbled |-> garbled]
          /\ answer' = ParseMultistatus(IF garbled THEN Append(read, [kind |-> "garbled"])
                                        ELSE read)
      BY <3>1, Zenon DEF Call
    <3>3. given'.document = document /\ given'.cut = cut /\ (given'.garbled <=> garbled)
      BY <3>2
    <3>4. read \in Seq(Event) /\ Right(read, document)
      BY PartRead, Zenon
    <3> HIDE DEF read
    <3>5. CASE garbled
      <4>1. answer' = {}
        BY <3>2, <3>4, <3>5, Garbling, Zenon
      <4> QED BY <3>3, <3>5, <4>1, Zenon DEF ResponsesRead
    <3>6. CASE ~garbled
      <4> DEFINE s == Read(Begin, read)
      <4>1. answer' = IF s.failed THEN {} ELSE {s.output}
        BY <3>2, <3>6, ReadFollows, Zenon
      <4>2. s.failed => Undecodable \in ToSet(read)
        <5>1. IsState(Begin) /\ ~Begin.failed
          BY DEF IsState, Begin
        <5>2. s.failed => \E i \in DOMAIN read : read[i] = Undecodable
          BY <3>4, <5>1, ReadKeeps, Zenon
        <5> QED BY <5>2 DEF ToSet
      <4>3. ~s.failed => s.output = First(document, EndsIn(read))
        BY <3>4, Zenon DEF Right
      <4> HIDE DEF s
      <4>4. \/ answer' = {First(document, EndsIn(read))}
            \/ answer' = {} /\ Undecodable \in ToSet(read)
        BY <4>1, <4>2, <4>3, Zenon
      <4> QED BY <3>3, <3>6, <4>4, Zenon
          DEF ResponsesRead, First, EndsIn, EndOfResponse, Undecodable, read
    <3> QED BY <3>5, <3>6, Zenon
  <2>2. CASE \/ ListBirthdays \/ WriteCard \/ ReadCard \/ RegisterClient
            \/ SignIn \/ PresentToken
    <3>1. code' # "multistatus"
      BY <2>2 DEF ListBirthdays, WriteCard, ReadCard, RegisterClient, SignIn,
                 PresentToken, Call
    <3> QED BY <3>1 DEF ResponsesRead
  <2>3. CASE UNCHANGED vars
    BY <1>2, <2>3 DEF ResponsesRead, vars
  <2> QED BY <1>2, <2>1, <2>2, <2>3 DEF Next
<1> QED BY <1>1, <1>2, PTL DEF Spec
-----------------------------------------------------------------------------
\* The list's entry u, or one that differs from it in its port only.
Listed(entries, u) ==
  \E e \in entries :
    \/ u = e
    \/ u.scheme = "http" /\ \E p \in Ports : SameUrl(u, [e EXCEPT !.port = p])

\* is_allowed_redirect_uri allows what is listed, no less and no more.
LEMMA AllowedIsListed ==
  ASSUME NEW entries \in SUBSET Uris, NEW u \in Uris,
         entries = {} \/ ParseAllowlist(entries) # {}
  PROVE  IsAllowedRedirectUri(ParseAllowlist(entries), u) <=> Listed(entries, u)
<1>1. entries = ParseAllowlist(entries) /\ \A e \in entries : ValidRedirectUri(e)
  BY DEF ParseAllowlist
<1>2. ASSUME IsAllowedRedirectUri(entries, u) PROVE Listed(entries, u)
  <2>1. CASE u \in entries
    BY <2>1 DEF Listed
  <2>2. CASE MatchesLoopbackEntry(entries, u)
    <3>1. PICK e \in entries : e.scheme = "http" /\ e.host = u.host /\ e.path = u.path
      BY <2>2 DEF MatchesLoopbackEntry
    <3>2. e \in Uris /\ ValidRedirectUri(e) /\ ValidRedirectUri(u) /\ u.scheme = "http"
      BY <1>1, <1>2, <2>2 DEF IsAllowedRedirectUri, MatchesLoopbackEntry
    <3>3. SameUrl(u, [e EXCEPT !.port = u.port]) /\ u.port \in Ports
      BY <3>1, <3>2 DEF SameUrl, ValidRedirectUri, Uris
    <3> QED BY <3>2, <3>3 DEF Listed
  <2> QED BY <1>2, <2>1, <2>2 DEF IsAllowedRedirectUri
<1>3. ASSUME Listed(entries, u) PROVE IsAllowedRedirectUri(entries, u)
  <2>1. PICK e \in entries :
          \/ u = e
          \/ u.scheme = "http" /\ \E p \in Ports : SameUrl(u, [e EXCEPT !.port = p])
    BY <1>3 DEF Listed
  <2>2. e \in Uris /\ ValidRedirectUri(e)
    BY <1>1
  <2>3. CASE u = e
    BY <2>2, <2>3 DEF IsAllowedRedirectUri
  <2>4. CASE u.scheme = "http" /\ \E p \in Ports : SameUrl(u, [e EXCEPT !.port = p])
    <3>1. PICK p \in Ports : SameUrl(u, [e EXCEPT !.port = p])
      BY <2>4
    <3>2. /\ e.scheme = u.scheme /\ e.host = u.host /\ e.path = u.path
          /\ e.extra = u.extra /\ e.padded = u.padded /\ e.parses = u.parses
      BY <3>1, <2>2 DEF SameUrl, Uris
    <3> QED BY <2>2, <2>4, <3>2
            DEF IsAllowedRedirectUri, MatchesLoopbackEntry, ValidRedirectUri
  <2> QED BY <2>1, <2>3, <2>4
<1> QED BY <1>1, <1>2, <1>3

\* A registration names no redirect URI that the operator did not list.
THEOREM RegistrationsConfined == Spec => []RedirectsConfined
<1>1. Init => RedirectsConfined
  BY DEF Init, RedirectsConfined
<1>2. ASSUME RedirectsConfined, [Next]_vars PROVE RedirectsConfined'
  <2>1. CASE RegisterClient
    <3>1. PICK entries \in AllowLists, asked \in Asked, configured \in BOOLEAN :
            /\ entries = {} \/ ParseAllowlist(entries) # {}
            /\ Call("register",
                    [entries |-> entries, asked |-> asked, configured |-> configured],
                    {Register(configured, ParseAllowlist(entries), asked)})
      BY <2>1 DEF RegisterClient
    <3>2. entries \in SUBSET Uris /\ asked \in SUBSET Uris
      BY PureCodeAssumption
    <3>3. \A u \in asked : IsAllowedRedirectUri(ParseAllowlist(entries), u)
                             <=> Listed(entries, u)
      BY <3>1, <3>2, AllowedIsListed
    <3>4. Register(configured, ParseAllowlist(entries), asked).status = 201
            <=> configured /\ \A u \in asked : Listed(entries, u)
      BY <3>3 DEF Register
    <3>5. /\ given'.configured = configured /\ given'.entries = entries
          /\ given'.asked = asked
          /\ answer' = {Register(configured, ParseAllowlist(entries), asked)}
      BY <3>1 DEF Call
    <3> QED BY <3>4, <3>5 DEF RedirectsConfined, Listed
  <2>2. CASE \/ ListBirthdays \/ WriteCard \/ ReadCard \/ ReadMultistatus
            \/ SignIn \/ PresentToken
    <3>1. code' # "register"
      BY <2>2 DEF ListBirthdays, WriteCard, ReadCard, ReadMultistatus, SignIn,
                 PresentToken, Call
    <3> QED BY <3>1 DEF RedirectsConfined
  <2>3. CASE UNCHANGED vars
    BY <1>2, <2>3 DEF RedirectsConfined, vars
  <2> QED BY <1>2, <2>1, <2>2, <2>3 DEF Next
<1> QED BY <1>1, <1>2, PTL DEF Spec
-----------------------------------------------------------------------------
\* strip_trailing_slash never takes the origin of a URL.
LEMMA StripKeepsOrigin ==
  ASSUME NEW url \in Url, url # <<>>, Head(url) \in Absolute
  PROVE  Strip(url) # <<>> /\ Head(Strip(url)) = Head(url)
<1> DEFINE kept == {0} \cup {i \in DOMAIN url : url[i] # "/"}
<1>1. kept \in SUBSET (0..Len(url)) /\ kept # {} /\ Len(url) \in Nat
  BY DEF Url
<1>2. 1 \in kept
  BY AudiencesAssumption DEF Url
<1>4. Strip(url) = SubSeq(url, 1, Max(kept))
  BY DEF Strip
<1> HIDE DEF kept
<1>3. Max(kept) \in 0..Len(url) /\ 1 <= Max(kept)
  BY <1>1, <1>2, GreatestOf
<1> QED BY <1>3, <1>4 DEF Url

\* The audience of a configuration that starts is an absolute URI.
LEMMA AudienceAbsolute ==
  ASSUME NEW env \in Environments, NEW c \in FromEnv(env)
  PROVE  IsAbsoluteHttpUri(c.stalwart_audience)
<1>1. /\ c.stalwart_audience = IF env.audience = <<>> THEN Strip(env.resource)
                               ELSE Strip(env.audience)
      /\ c.resource_url = Strip(env.resource)
      /\ ValidUrl(c.resource_url)
      /\ env.audience = <<>> \/ IsAbsoluteHttpUri(env.audience)
  BY DEF FromEnv
<1>2. CASE env.audience = <<>>
  BY <1>1, <1>2, AudiencesAssumption DEF ValidUrl, IsAbsoluteHttpUri
<1>3. CASE env.audience # <<>>
  <2>1. env.audience \in Url
    BY PureCodeAssumption
  <2> QED BY <1>1, <1>3, <2>1, StripKeepsOrigin DEF IsAbsoluteHttpUri
<1> QED BY <1>2, <1>3

\* apply_dav_resource leaves one resource, the audience it is given.
LEMMA OneResourceLeft ==
  ASSUME NEW pairs \in Parameters, NEW audience, IsAbsoluteHttpUri(audience),
         NEW sent, sent = ApplyDavResource(pairs, audience)
  PROVE  /\ \E i \in DOMAIN sent : sent[i].key = "resource"
         /\ \A i \in DOMAIN sent : sent[i].key = "resource" => sent[i].value = audience
<1> DEFINE named == {i \in DOMAIN pairs : pairs[i].key = "resource"}
           dav   == [key |-> "resource", value |-> audience]
<1> DEFINE Parameter == [key : STRING, value : Url]
<1>0. pairs \in Seq(Parameter)
  BY PureCodeAssumption
<1>1. /\ DOMAIN pairs = 1..Len(pairs) /\ Len(pairs) \in Nat
      /\ \A i \in DOMAIN pairs : pairs[i] \in Parameter
  <2> HIDE DEF Parameter
  <2> QED BY <1>0
<1>2. CASE named = {}
  <2>1. sent = Append(pairs, dav)
    BY <1>2 DEF ApplyDavResource
  <2>2. /\ DOMAIN sent = 1..Len(pairs) + 1
        /\ \A i \in DOMAIN pairs : sent[i] = pairs[i]
        /\ sent[Len(pairs) + 1] = dav
    BY <1>0, <1>1, <2>1
  <2> QED BY <1>1, <1>2, <2>2
<1>3. CASE named # {}
  <2>1. sent = [i \in DOMAIN pairs |->
                  IF i \in named THEN [pairs[i] EXCEPT !.value = audience] ELSE pairs[i]]
    BY <1>3 DEF ApplyDavResource
  <2>2. /\ DOMAIN sent = DOMAIN pairs
        /\ \A i \in named : sent[i].key = "resource" /\ sent[i].value = audience
        /\ \A i \in DOMAIN pairs \ named : sent[i].key # "resource"
    BY <1>1, <2>1
  <2> QED BY <1>3, <2>2
<1> QED BY <1>2, <1>3

\* The proxy asks Logto for the configured audience and nothing else.
THEOREM OnlyTheAudienceIsAsked == Spec => []OneResourceAsked
<1>1. Init => OneResourceAsked
  BY DEF Init, OneResourceAsked
<1>2. ASSUME OneResourceAsked, [Next]_vars PROVE OneResourceAsked'
  <2>1. CASE SignIn
    <3>1. PICK env \in Environments, pairs \in Parameters : \E c \in FromEnv(env) :
            Call("sign_in", [config |-> c, pairs |-> pairs],
                 {ApplyDavResource(pairs, c.stalwart_audience)})
      BY <2>1 DEF SignIn
    <3>0. PICK c \in FromEnv(env) :
            Call("sign_in", [config |-> c, pairs |-> pairs],
                 {ApplyDavResource(pairs, c.stalwart_audience)})
      BY <3>1
    <3>2. /\ answer' = {ApplyDavResource(pairs, c.stalwart_audience)}
          /\ given'.config = c
      BY <3>0 DEF Call
    <3>3. IsAbsoluteHttpUri(c.stalwart_audience)
      BY AudienceAbsolute
    <3> DEFINE sent == ApplyDavResource(pairs, c.stalwart_audience)
    <3>4. /\ \E i \in DOMAIN sent : sent[i].key = "resource"
          /\ \A i \in DOMAIN sent :
               sent[i].key = "resource" => sent[i].value = c.stalwart_audience
      BY <3>3, OneResourceLeft
    <3> HIDE DEF sent
    <3>5. {sent[i].value : i \in {i \in DOMAIN sent : sent[i].key = "resource"}}
            = {c.stalwart_audience}
      BY <3>4
    <3>6. answer' = {sent}
      BY <3>2 DEF sent
    <3> QED BY <3>2, <3>3, <3>5, <3>6 DEF OneResourceAsked, IsAbsoluteHttpUri
  <2>2. CASE \/ ListBirthdays \/ WriteCard \/ ReadCard \/ ReadMultistatus
            \/ RegisterClient \/ PresentToken
    <3>1. code' # "sign_in"
      BY <2>2 DEF ListBirthdays, WriteCard, ReadCard, ReadMultistatus, RegisterClient,
                 PresentToken, Call
    <3> QED BY <3>1 DEF OneResourceAsked
  <2>3. CASE UNCHANGED vars
    BY <1>2, <2>3 DEF OneResourceAsked, vars
  <2> QED BY <1>2, <2>1, <2>2, <2>3 DEF Next
<1> QED BY <1>1, <1>2, PTL DEF Spec

\* A token that a client obtained by following the metadata is one the
\* validator accepts, and the metadata names one issuer throughout.
THEOREM DiscoveredTokensAccepted == Spec => []SignInsAccepted
<1>1. Init => SignInsAccepted
  BY DEF Init, SignInsAccepted
<1>2. ASSUME OneResourceAsked, SignInsAccepted, [Next]_vars PROVE SignInsAccepted'
  <2>1. CASE PresentToken
    <3>0. PICK pairs \in answer : \E i \in DOMAIN pairs :
            /\ pairs[i].key = "resource"
            /\ \E aud \in {pairs[i].value, ProtectedResource(given.config).resource} :
                 answer' = {aud} \cap AcceptedTokenAudiences(given.config)
      BY <2>1 DEF PresentToken
    <3>5. PICK i \in DOMAIN pairs :
            /\ pairs[i].key = "resource"
            /\ \E aud \in {pairs[i].value, ProtectedResource(given.config).resource} :
                 answer' = {aud} \cap AcceptedTokenAudiences(given.config)
      BY <3>0
    <3>1. PICK aud \in {pairs[i].value, ProtectedResource(given.config).resource} :
            answer' = {aud} \cap AcceptedTokenAudiences(given.config)
      BY <3>5
    <3>2. pairs[i].value = given.config.stalwart_audience
      BY <2>1, <3>5, <1>2 DEF OneResourceAsked, PresentToken
    <3>3. aud \in AcceptedTokenAudiences(given.config)
      BY <3>1, <3>2 DEF AcceptedTokenAudiences, ProtectedResource
    <3>4. code' = "token"
      BY <2>1 DEF PresentToken
    <3> QED BY <3>1, <3>3, <3>4 DEF SignInsAccepted
  <2>2. CASE SignIn
    <3>1. code' = "sign_in"
      BY <2>2 DEF SignIn, Call
    <3> QED BY <3>1 DEF SignInsAccepted, ServerMetadata, ProtectedResource
  <2>3. CASE \/ ListBirthdays \/ WriteCard \/ ReadCard \/ ReadMultistatus
            \/ RegisterClient
    <3>1. code' \notin {"sign_in", "token"}
      BY <2>3 DEF ListBirthdays, WriteCard, ReadCard, ReadMultistatus, RegisterClient, Call
    <3> QED BY <3>1 DEF SignInsAccepted
  <2>4. CASE UNCHANGED vars
    BY <1>2, <2>4 DEF SignInsAccepted, vars
  <2> QED BY <1>2, <2>1, <2>2, <2>3, <2>4 DEF Next
<1> QED BY <1>1, <1>2, OnlyTheAudienceIsAsked, PTL DEF Spec
-----------------------------------------------------------------------------
\* The number of the last day before a year.
Before(y) == 365 * (y - 1) + (y - 1) \div 4 - (y - 1) \div 100 + (y - 1) \div 400

\* A year has 365 days, a leap year one more.
LEMMA YearLength ==
  ASSUME NEW y \in Int
  PROVE  /\ Before(y) \in Int
         /\ Before(y + 1) = Before(y) + 365 + (IF IsLeap(y) THEN 1 ELSE 0)
<1> DEFINE p == y - 1
<1>1. y \div 4 - p \div 4 = IF y % 4 = 0 THEN 1 ELSE 0
  OBVIOUS
<1>2. y \div 100 - p \div 100 = IF y % 100 = 0 THEN 1 ELSE 0
  OBVIOUS
<1>3. y \div 400 - p \div 400 = IF y % 400 = 0 THEN 1 ELSE 0
  OBVIOUS
<1>4. (y % 400 = 0 => y % 100 = 0) /\ (y % 100 = 0 => y % 4 = 0)
  OBVIOUS
<1>5. Before(y + 1) = 365 * y + y \div 4 - y \div 100 + y \div 400
  BY DEF Before
<1> QED BY <1>1, <1>2, <1>3, <1>4, <1>5 DEF Before, IsLeap

\* Years later, at least as many times 365 days have gone by.
LEMMA YearsGrow ==
  ASSUME NEW y \in Int, NEW z \in Int, y <= z
  PROVE  Before(z) >= Before(y) + 365 * (z - y)
<1> DEFINE p == y - 1
           q == z - 1
<1>1. p \div 400 <= q \div 400
  OBVIOUS
<1>2. p \div 4 - p \div 100 = 24 * (p \div 100) + (p % 100) \div 4
  OBVIOUS
<1>3. q \div 4 - q \div 100 = 24 * (q \div 100) + (q % 100) \div 4
  OBVIOUS
<1>4. p \div 100 < q \div 100 \/ (p \div 100 = q \div 100 /\ p % 100 <= q % 100)
  OBVIOUS
<1>5. (p % 100) \div 4 \in 0..24 /\ (q % 100) \div 4 \in 0..24
  OBVIOUS
<1>6. p % 100 <= q % 100 => (p % 100) \div 4 <= (q % 100) \div 4
  OBVIOUS
<1>7. p \div 4 - p \div 100 <= q \div 4 - q \div 100
  BY <1>2, <1>3, <1>4, <1>5, <1>6
<1> QED BY <1>1, <1>7 DEF Before

\* Later years begin later.
LEMMA YearsFollow ==
  ASSUME NEW y \in Int, NEW z \in Int, y <= z
  PROVE  Before(y) <= Before(z) /\ Before(y) \in Int /\ Before(z) \in Int
<1>1. Before(z) >= Before(y) + 365 * (z - y)
  BY YearsGrow
<1>2. Before(y) \in Int /\ Before(z) \in Int
  BY YearLength
<1> QED BY <1>1, <1>2

\* A date lies in its year.
LEMMA DayInYear ==
  ASSUME NEW y \in Int, NEW m \in 1..12, NEW d \in 1..31, IsDate(y, m, d)
  PROVE  /\ DayNumber(y, m, d) \in Int
         /\ Before(y) < DayNumber(y, m, d)
         /\ DayNumber(y, m, d) <= Before(y + 1)
<1> DEFINE leap == IF IsLeap(y) THEN 1 ELSE 0
           passed == DaysBefore[m] + (IF m > 2 THEN leap ELSE 0)
<1>2. passed \in Int /\ passed >= 0 /\ DaysBefore[m] \in Int
  BY DEF DaysBefore
<1>0. (IF m > 2 THEN leap ELSE 0) = (IF m > 2 /\ IsLeap(y) THEN 1 ELSE 0)
  OBVIOUS
<1>1. DayNumber(y, m, d) = Before(y) + passed + d
  BY <1>0, <1>2 DEF DayNumber, Before
<1>3. passed + d <= 365 + leap
  BY DEF DaysBefore, IsDate, DaysIn
<1>4. leap \in 0..1 /\ Before(y) \in Int /\ Before(y + 1) = Before(y) + 365 + leap
  BY YearLength
<1> HIDE DEF leap, passed
<1> QED BY <1>1, <1>2, <1>3, <1>4

\* The last day of a year.
LEMMA YearEnds ==
  ASSUME NEW y \in Int
  PROVE  DayNumber(y, 12, 31) = Before(y + 1)
<1> DEFINE leap == IF IsLeap(y) THEN 1 ELSE 0
<1>1. DaysBefore[12] = 334
  BY DEF DaysBefore
<1>2. DayNumber(y, 12, 31) = Before(y) + 334 + leap + 31
  BY <1>1, YearLength DEF DayNumber, Before
<1>3. leap \in 0..1 /\ Before(y) \in Int /\ Before(y + 1) = Before(y) + 365 + leap
  BY YearLength
<1> HIDE DEF leap
<1> QED BY <1>2, <1>3

\* A birthday: a day of the year 2024, and of its own year if it has one.
Born ==
  {b \in [year : Nat \cup {NoYear}, month : 1..12, day : 1..31] :
     /\ IsDate(2024, b.month, b.day)
     /\ b.year # NoYear => IsDate(b.year, b.month, b.day)}

\* occurrence_in finds the anniversary of any birthday, in any year.
LEMMA OccurrenceIsAnniversary ==
  ASSUME NEW b \in Born, NEW y \in Int
  PROVE  /\ OccurrenceIn(b, y) = {Anniversary(b, y)}
         /\ Anniversary(b, y) \in Int
         /\ Before(y) < Anniversary(b, y) /\ Anniversary(b, y) <= Before(y + 1)
<1>0. IsDate(2024, b.month, b.day)
  BY DEF Born
<1>1. b.month \in 1..12 /\ b.day \in 1..31
  BY DEF Born
<1>2. CASE IsDate(y, b.month, b.day)
  <2>1. Anniversary(b, y) = DayNumber(y, b.month, b.day)
    <3>1. CASE b.month = 2 /\ b.day = 29
      <4>1. DaysBefore[2] = 31
        BY DEF DaysBefore
      <4> QED BY <3>1, <4>1 DEF Anniversary, DayNumber
    <3>2. CASE ~(b.month = 2 /\ b.day = 29)
      BY <3>2 DEF Anniversary
    <3> QED BY <3>1, <3>2
  <2>2. /\ DayNumber(y, b.month, b.day) \in Int
        /\ Before(y) < DayNumber(y, b.month, b.day)
        /\ DayNumber(y, b.month, b.day) <= Before(y + 1)
    BY <1>1, <1>2, DayInYear
  <2>3. OccurrenceIn(b, y) = {DayNumber(y, b.month, b.day)}
    BY <1>2 DEF OccurrenceIn
  <2> QED BY <2>1, <2>2, <2>3
<1>3. CASE ~IsDate(y, b.month, b.day)
  <2>1. b.month = 2 /\ b.day = 29 /\ ~IsLeap(y)
    BY <1>0, <1>1, <1>3 DEF IsDate, DaysIn, IsLeap
  <2>2. DayNumber(y, 3, 1) = DayNumber(y, 2, 28) + 1
    BY <2>1 DEF DayNumber, DaysBefore
  <2>3. IsDate(y, 3, 1)
    BY DEF IsDate, DaysIn
  <2>4. Anniversary(b, y) = DayNumber(y, 3, 1) /\ OccurrenceIn(b, y) = {DayNumber(y, 3, 1)}
    BY <1>3, <2>1, <2>2 DEF Anniversary, OccurrenceIn
  <2> QED BY <2>3, <2>4, DayInYear
<1> QED BY <1>2, <1>3

\* A date.
Day == {d \in [year : Nat, month : 1..12, day : 1..31] : IsDate(d.year, d.month, d.day)}

\* The number of a date.
NumberOf(today) == DayNumber(today.year, today.month, today.day)

\* The year of the first anniversary from a date on, as days_until finds it.
YearFound(b, today) ==
  LET first == FirstYear(b, today)
  IN  IF Anniversary(b, first) >= NumberOf(today) THEN first ELSE first + 1

\* Anniversaries of later years are later.
LEMMA AnniversariesGrow ==
  ASSUME NEW b \in Born, NEW y \in Int, NEW z \in Int, y < z
  PROVE  Anniversary(b, y) < Anniversary(b, z)
<1>1. Before(y + 1) <= Before(z)
  BY YearsFollow
<1>2. /\ Anniversary(b, y) \in Int /\ Anniversary(b, y) <= Before(y + 1)
      /\ Anniversary(b, z) \in Int /\ Before(z) < Anniversary(b, z)
  BY OccurrenceIsAnniversary
<1>3. Before(y + 1) \in Int /\ Before(z) \in Int
  BY YearLength
<1> QED BY <1>1, <1>2, <1>3

\* The search starts with this year, or with the year of birth.
LEMMA SearchStarts ==
  ASSUME NEW b \in Born, NEW today \in Day
  PROVE  /\ FirstYear(b, today) \in Nat
         /\ b.year <= FirstYear(b, today) /\ today.year <= FirstYear(b, today)
         /\ FirstYear(b, today) \in {b.year, today.year}
         /\ b.year \in Int /\ today.year \in Nat
<1>1. b.year \in Nat \cup {-1} /\ today.year \in Nat
  BY DEF Born, Day, NoYear
<1>2. \E x \in {b.year, today.year} : \A z \in {b.year, today.year} : x >= z
  BY <1>1
<1> QED BY <1>1, <1>2 DEF FirstYear, Max

\* A date lies in its year.
LEMMA TodayInYear ==
  ASSUME NEW today \in Day
  PROVE  /\ NumberOf(today) \in Int
         /\ Before(today.year) < NumberOf(today)
         /\ NumberOf(today) <= Before(today.year + 1)
<1>1. /\ today.year \in Int /\ today.month \in 1..12 /\ today.day \in 1..31
      /\ IsDate(today.year, today.month, today.day)
  BY DEF Day
<1> QED BY <1>1, DayInYear DEF NumberOf

\* Nothing from the year of birth on is nearer than what days_until finds.
LEMMA FoundIsFirst ==
  ASSUME NEW b \in Born, NEW today \in Day, NEW y \in Int,
         y >= b.year, Anniversary(b, y) >= NumberOf(today)
  PROVE  y >= YearFound(b, today)
<1> DEFINE first == FirstYear(b, today)
<1>3. today.year \in Int
  BY SearchStarts
<1>1. CASE y < today.year
  <2>1. Before(y + 1) <= Before(today.year)
    <3>1. y + 1 \in Int /\ today.year \in Int /\ y + 1 <= today.year
      BY <1>1, <1>3
    <3> QED BY <3>1, YearsFollow
  <2>2. /\ Anniversary(b, y) \in Int /\ Anniversary(b, y) <= Before(y + 1)
        /\ NumberOf(today) \in Int /\ Before(today.year) < NumberOf(today)
    BY OccurrenceIsAnniversary, TodayInYear
  <2>3. Before(y + 1) \in Int /\ Before(today.year) \in Int
    BY YearLength, SearchStarts
  <2> QED BY <2>1, <2>2, <2>3
<1>2. CASE y >= today.year
  <2>1. y >= first /\ first \in Int
    BY <1>2, SearchStarts
  <2>2. YearFound(b, today) = IF Anniversary(b, first) >= NumberOf(today) THEN first
                              ELSE first + 1
    BY DEF YearFound
  <2> QED BY <2>1, <2>2
<1> QED BY <1>1, <1>2, <1>3

\* days_until counts the days to the anniversary of the year found, which
\* does lie ahead.
LEMMA DaysUntilFound ==
  ASSUME NEW b \in Born, NEW today \in Day
  PROVE  /\ YearFound(b, today) \in Nat
         /\ b.year <= YearFound(b, today) /\ today.year <= YearFound(b, today)
         /\ Anniversary(b, YearFound(b, today)) >= NumberOf(today)
         /\ DaysUntil(b, today) = Anniversary(b, YearFound(b, today)) - NumberOf(today)
<1> DEFINE first == FirstYear(b, today)
           t == NumberOf(today)
           ahead(y) == {n \in OccurrenceIn(b, y) : n >= t}
           next == IF ahead(first) # {} THEN ahead(first) ELSE ahead(first + 1)
<1>1. /\ first \in Nat /\ b.year \in Int /\ today.year \in Nat /\ t \in Int
      /\ b.year <= first /\ today.year <= first
  BY SearchStarts, TodayInYear
<1>2. \A y \in Int : /\ Anniversary(b, y) \in Int
                     /\ ahead(y) = IF Anniversary(b, y) >= t THEN {Anniversary(b, y)} ELSE {}
  BY OccurrenceIsAnniversary
<1>3. DaysUntil(b, today) = IF next = {} THEN Never ELSE (CHOOSE n \in next : TRUE) - t
  BY DEF DaysUntil, NumberOf
<1>4. Anniversary(b, first + 1) >= t
  <2>1. Before(today.year + 1) <= Before(first + 1)
    <3>1. today.year + 1 \in Int /\ first + 1 \in Int /\ today.year + 1 <= first + 1
      BY <1>1
    <3> QED BY <3>1, YearsFollow
  <2>2. /\ Anniversary(b, first + 1) \in Int /\ Before(first + 1) < Anniversary(b, first + 1)
        /\ t <= Before(today.year + 1)
    BY <1>1, OccurrenceIsAnniversary, TodayInYear
  <2>3. Before(today.year + 1) \in Int /\ Before(first + 1) \in Int
    BY <1>1, YearLength
  <2> QED BY <1>1, <2>1, <2>2, <2>3
<1>5. YearFound(b, today) = IF Anniversary(b, first) >= t THEN first ELSE first + 1
  BY DEF YearFound
<1> HIDE DEF first, t
<1>6. next = {Anniversary(b, YearFound(b, today))}
  <2>1. CASE Anniversary(b, first) >= t
    BY <1>1, <1>2, <1>5, <2>1
  <2>2. CASE ~(Anniversary(b, first) >= t)
    BY <1>1, <1>2, <1>4, <1>5, <2>2
  <2> QED BY <2>1, <2>2
<1>7. YearFound(b, today) \in Nat /\ b.year <= YearFound(b, today)
      /\ today.year <= YearFound(b, today)
  BY <1>1, <1>5
<1>8. Anniversary(b, YearFound(b, today)) >= t
  BY <1>4, <1>5
<1>9. DaysUntil(b, today) = Anniversary(b, YearFound(b, today)) - t
  <2> HIDE DEF next
  <2> QED BY <1>3, <1>6
<1> QED BY <1>7, <1>8, <1>9 DEF t

\* Within a window, days_until and turning give the nearest anniversary and
\* the age it brings; outside it there is none.
THEOREM WindowFindsNearest ==
  ASSUME NEW b \in Born, NEW today \in Day, NEW days \in 1..MaxBirthdayDays
  PROVE  LET near == {a \in Nearest(b, today) : a[1] <= days}
         IN  \/ WithinWindow(b, today, days) = {} /\ near = {}
             \/ \E n, y \in Int :
                  /\ WithinWindow(b, today, days) = {n} /\ near = {<<n, y>>}
                  /\ Turning(b, today) = IF b.year = NoYear THEN {} ELSE {y - b.year}
<1> DEFINE t == NumberOf(today)
           y == YearFound(b, today)
           n == Anniversary(b, y) - t
           years == {z \in (today.year - 1)..(today.year + 9) :
                       z >= b.year /\ Anniversary(b, z) >= t}
           ahead == {<<Anniversary(b, z) - t, z>> : z \in years}
           age == IF b.year = NoYear THEN {} ELSE {y - b.year}
<1>1. /\ y \in Nat /\ b.year <= y /\ today.year <= y /\ Anniversary(b, y) >= t
      /\ DaysUntil(b, today) = n
  BY DaysUntilFound
<1>2. b.year \in Int /\ today.year \in Nat
  BY SearchStarts
<1>3. \A z \in Int : Anniversary(b, z) \in Int
  BY OccurrenceIsAnniversary
<1>4. t \in Int /\ Before(today.year) < t /\ t <= Before(today.year + 1)
  BY TodayInYear
<1>5. \A z \in years : y <= z
  BY FoundIsFirst
<1>6. Nearest(b, today) = {a \in ahead : \A other \in ahead : a[1] <= other[1]}
  BY DEF Nearest, NumberOf
<1>7. WithinWindow(b, today, days) = {m \in {n} : m <= days}
  BY <1>1 DEF WithinWindow
<1>8. CASE y <= today.year + 9
  <2>1. y \in years
    BY <1>1, <1>2, <1>8
  <2>2. \A z \in years : z = y \/ Anniversary(b, y) < Anniversary(b, z)
    <3>1. \A z \in years : z \in Int /\ y \in Int
      BY <1>1, <1>2
    <3> QED BY <1>5, <3>1, AnniversariesGrow
  <2>3. Nearest(b, today) = {<<n, y>>}
    <3>1. <<n, y>> \in ahead
      BY <2>1
    <3>2. \A a \in ahead : a = <<n, y>> \/ (n <= a[1] /\ ~ (a[1] <= n))
      <4>1. TAKE a \in ahead
      <4>2. PICK z \in years : a = <<Anniversary(b, z) - t, z>>
        OBVIOUS
      <4>3. z \in Int /\ y \in Int
        BY <1>1, <1>2
      <4> QED BY <1>3, <1>4, <2>2, <4>2, <4>3
    <3>3. n \in Int
      BY <1>1, <1>3, <1>4
    <3>4. <<n, y>>[1] = n
      OBVIOUS
    <3> HIDE DEF n, y, ahead
    <3>5. \A a \in ahead : n <= a[1]
      BY <3>2, <3>3, <3>4
    <3>6. \A a \in Nearest(b, today) : a = <<n, y>>
      <4>1. TAKE a \in Nearest(b, today)
      <4>2. a \in ahead /\ a[1] <= n
        BY <1>6, <3>1, <3>4
      <4> QED BY <3>2, <4>2
    <3>7. <<n, y>> \in Nearest(b, today)
      BY <1>6, <3>1, <3>4, <3>5
    <3> QED BY <3>6, <3>7
  <2>4. Turning(b, today) = age
    <3> DEFINE first == FirstYear(b, today)
    <3>1. first \in Nat /\ y = IF Anniversary(b, first) >= t THEN first ELSE first + 1
      BY SearchStarts DEF YearFound
    <3>2. t + n = Anniversary(b, y)
      BY <1>1, <1>3, <1>4
    <3>3. DayNumber(first, 12, 31) = Before(first + 1)
      BY <3>1, YearEnds
    <3>4. /\ Anniversary(b, first) <= Before(first + 1)
          /\ Before(first + 1) < Anniversary(b, first + 1)
          /\ Before(first + 1) \in Int
      BY <3>1, OccurrenceIsAnniversary, YearLength
    <3>5. (IF t + n > DayNumber(first, 12, 31) THEN first + 1 ELSE first) = y
      <4>1. Anniversary(b, first) \in Int /\ Anniversary(b, first + 1) \in Int
        BY <1>3, <3>1
      <4>2. CASE Anniversary(b, first) >= t
        BY <3>1, <3>2, <3>3, <3>4, <4>1, <4>2
      <4>3. CASE ~(Anniversary(b, first) >= t)
        BY <3>1, <3>2, <3>3, <3>4, <4>1, <4>3
      <4> QED BY <4>2, <4>3
    <3>6. Turning(b, today)
            = IF b.year = NoYear THEN {}
              ELSE {(IF t + n > DayNumber(first, 12, 31) THEN first + 1 ELSE first) - b.year}
      BY <1>1 DEF Turning, NumberOf
    <3> QED BY <3>5, <3>6
  <2>5. n \in Int /\ y \in Int
    BY <1>1, <1>3, <1>4
  <2>6. <<n, y>>[1] = n
    OBVIOUS
  <2> HIDE DEF n, y
  <2>7. CASE n <= days
    <3>1. WithinWindow(b, today, days) = {n}
      BY <1>7, <2>7
    <3>2. {a \in Nearest(b, today) : a[1] <= days} = {<<n, y>>}
      BY <2>3, <2>6, <2>7
    <3> QED BY <2>4, <2>5, <3>1, <3>2
  <2>8. CASE ~(n <= days)
    <3>1. WithinWindow(b, today, days) = {}
      BY <1>7, <2>8
    <3>2. {a \in Nearest(b, today) : a[1] <= days} = {}
      BY <2>3, <2>6, <2>8
    <3> QED BY <3>1, <3>2
  <2> QED BY <2>7, <2>8
<1>9. CASE y > today.year + 9
  <2>1. ahead = {}
    BY <1>1, <1>2, <1>5, <1>9
  <2>2. n > 366
    <3>1. Before(y) >= Before(today.year + 1) + 365 * (y - (today.year + 1))
      <4>1. y \in Int /\ today.year + 1 \in Int /\ today.year + 1 <= y
        BY <1>1, <1>2, <1>9
      <4> QED BY <4>1, YearsGrow
    <3>2. Before(y) < Anniversary(b, y) /\ Anniversary(b, y) \in Int
      BY <1>1, OccurrenceIsAnniversary
    <3>3. Before(y) \in Int /\ Before(today.year + 1) \in Int
      BY <1>1, <1>2, YearLength
    <3> QED BY <1>1, <1>2, <1>4, <1>9, <3>1, <3>2, <3>3
  <2>3. Nearest(b, today) = {}
    BY <1>6, <2>1
  <2>4. days <= 366 /\ n \in Int
    BY <1>1, <1>3, <1>4, BirthdayAssumption
  <2>5. WithinWindow(b, today, days) = {}
    <3> HIDE DEF n
    <3> QED BY <1>7, <2>2, <2>4
  <2> QED BY <2>3, <2>5
<1> QED BY <1>1, <1>2, <1>8, <1>9
-----------------------------------------------------------------------------
\* What the list holds of a contact.
Entry == [href : Nat, name : Nat, days : Int, turning : SUBSET Int]

\* Of any two entries one comes up to the other, and equal places are one.
LEMMA PrecedesIsTotal ==
  ASSUME NEW s \in Seq(Entry), NEW i \in DOMAIN s, NEW j \in DOMAIN s
  PROVE  /\ Precedes(s, i, i)
         /\ Precedes(s, i, j) \/ Precedes(s, j, i)
         /\ Precedes(s, i, j) /\ Precedes(s, j, i) => i = j
         /\ \A k \in DOMAIN s : Precedes(s, i, j) /\ Precedes(s, j, k) => Precedes(s, i, k)
<1>1. /\ DOMAIN s \subseteq Nat
      /\ \A k \in DOMAIN s : s[k].days \in Int /\ s[k].name \in Nat
  <2>1. DOMAIN s \subseteq Nat /\ \A k \in DOMAIN s : s[k] \in Entry
    OBVIOUS
  <2>2. \A e \in Entry : e.days \in Int /\ e.name \in Nat
    BY DEF Entry
  <2> QED BY <2>1, <2>2
<1>2. Precedes(s, i, i) /\ (Precedes(s, i, j) \/ Precedes(s, j, i))
  BY <1>1 DEF Precedes, Sooner
<1>3. Precedes(s, i, j) /\ Precedes(s, j, i) => i = j
  BY <1>1 DEF Precedes
<1>4. ASSUME NEW k \in DOMAIN s, Precedes(s, i, j), Precedes(s, j, k)
      PROVE  Precedes(s, i, k)
  <2>1. i \in Nat /\ j \in Nat /\ k \in Nat
    BY <1>1
  <2>2. /\ s[i].days \in Int /\ s[j].days \in Int /\ s[k].days \in Int
        /\ s[i].name \in Nat /\ s[j].name \in Nat /\ s[k].name \in Nat
    BY <1>1
  <2>3. Sooner(s[i], s[k])
    BY <1>4, <2>2 DEF Precedes, Sooner
  <2>4. Sooner(s[k], s[i]) => Sooner(s[j], s[i]) /\ Sooner(s[k], s[j])
    BY <1>4, <2>2 DEF Precedes, Sooner
  <2>5. Sooner(s[k], s[i]) => i <= k
    BY <1>4, <2>1, <2>4 DEF Precedes
  <2> QED BY <2>3, <2>5 DEF Precedes
<1> QED BY <1>2, <1>3, <1>4

\* Who comes before has the smaller place.
LEMMA PlacesFollow ==
  ASSUME NEW s \in Seq(Entry)
  PROVE  /\ \A i \in DOMAIN s : Place(s, i) \in DOMAIN s
         /\ \A i, j \in DOMAIN s : i # j /\ Precedes(s, i, j) => Place(s, i) < Place(s, j)
<1> DEFINE upto(i) == {j \in DOMAIN s : Precedes(s, j, i)}
<1>0. DOMAIN s = 1..Len(s) /\ Len(s) \in Nat
  OBVIOUS
<1>1. IsFiniteSet(DOMAIN s) /\ Cardinality(DOMAIN s) = Len(s)
  <2>1. 1 \in Int /\ Len(s) \in Int
    BY <1>0
  <2>2. /\ IsFiniteSet(1..Len(s))
        /\ Cardinality(1..Len(s)) = IF 1 > Len(s) THEN 0 ELSE Len(s) - 1 + 1
    BY <2>1, FS_Interval, Zenon
  <2>3. Cardinality(1..Len(s)) = Len(s)
    BY <1>0, <2>2
  <2> QED BY <1>0, <2>2, <2>3
<1>2. \A i \in DOMAIN s : /\ IsFiniteSet(upto(i)) /\ Cardinality(upto(i)) \in Nat
                          /\ Cardinality(upto(i)) <= Len(s)
  BY <1>0, <1>1, FS_Subset, FS_CardinalityType
<1>3. \A i \in DOMAIN s : i \in upto(i)
  BY PrecedesIsTotal
<1>4. \A i \in DOMAIN s : Cardinality(upto(i)) # 0
  BY <1>2, <1>3, FS_EmptySet
<1>5. ASSUME NEW i \in DOMAIN s, NEW j \in DOMAIN s, i # j, Precedes(s, i, j)
      PROVE  Cardinality(upto(i)) < Cardinality(upto(j))
  <2>1. upto(i) \subseteq upto(j)
    BY <1>5, PrecedesIsTotal
  <2>2. j \in upto(j) /\ j \notin upto(i)
    BY <1>5, PrecedesIsTotal
  <2> HIDE DEF upto
  <2>3. /\ Cardinality(upto(i)) <= Cardinality(upto(j))
        /\ Cardinality(upto(i)) # Cardinality(upto(j))
    BY <1>2, <2>1, <2>2, FS_Subset
  <2> QED BY <1>2, <2>3
<1>6. \A i : Place(s, i) = Cardinality(upto(i))
  BY DEF Place
<1> HIDE DEF upto
<1> QED BY <1>0, <1>2, <1>4, <1>5, <1>6

\* Each place is one entry's.
LEMMA PlacesAreTaken ==
  ASSUME NEW s \in Seq(Entry), NEW n \in DOMAIN s
  PROVE  \E i \in DOMAIN s : Place(s, i) = n
<1> DEFINE place == [i \in DOMAIN s |-> Place(s, i)]
<1>1. IsFiniteSet(DOMAIN s)
  <2>1. DOMAIN s = 1..Len(s) /\ Len(s) \in Nat
    OBVIOUS
  <2> QED BY <2>1, FS_Interval
<1>2. place \in [DOMAIN s -> DOMAIN s]
  BY PlacesFollow
<1>3. \A i, j \in DOMAIN s : place[i] = place[j] => i = j
  <2> SUFFICES ASSUME NEW i \in DOMAIN s, NEW j \in DOMAIN s, i # j
               PROVE  Place(s, i) # Place(s, j)
    OBVIOUS
  <2>1. Place(s, i) \in Nat /\ Place(s, j) \in Nat
    BY PlacesFollow
  <2>2. Place(s, i) < Place(s, j) \/ Place(s, j) < Place(s, i)
    BY PlacesFollow, PrecedesIsTotal
  <2> QED BY <2>1, <2>2
<1>4. place \in Injection(DOMAIN s, DOMAIN s)
  BY <1>2, <1>3 DEF Injection, IsInjective
<1>5. place \in Surjection(DOMAIN s, DOMAIN s)
  <2> HIDE DEF place
  <2> QED BY <1>1, <1>4, FS_Injection
<1> QED BY <1>5 DEF Surjection

\* The sorted list has the entries of the list, each as often, sooner first.
LEMMA SortedBySooner ==
  ASSUME NEW s \in Seq(Entry)
  PROVE  LET r == SortBySooner(s)
         IN  /\ r \in Seq(Entry) /\ Len(r) = Len(s) /\ ToSet(r) = ToSet(s)
             /\ \A i, j \in DOMAIN r : i < j => r[i].days <= r[j].days
             /\ IsInjective(s) => IsInjective(r)
<1> DEFINE at(n) == CHOOSE i \in DOMAIN s : Place(s, i) = n
           r == SortBySooner(s)
<1>1. \A n \in DOMAIN s : at(n) \in DOMAIN s /\ Place(s, at(n)) = n
  BY PlacesAreTaken
<1>2. r = [n \in DOMAIN s |-> s[at(n)]]
  BY DEF SortBySooner
<1>3. /\ DOMAIN s = 1..Len(s) /\ Len(s) \in Nat
      /\ \A i \in DOMAIN s : s[i] \in Entry
  OBVIOUS
<1> HIDE DEF at
<1>4. \A i \in DOMAIN s : at(Place(s, i)) = i
  <2> SUFFICES ASSUME NEW i \in DOMAIN s PROVE at(Place(s, i)) = i
    OBVIOUS
  <2> DEFINE j == at(Place(s, i))
  <2>1. j \in DOMAIN s /\ Place(s, j) = Place(s, i) /\ Place(s, i) \in Nat
    BY <1>1, PlacesFollow
  <2>2. j # i => Place(s, i) < Place(s, j) \/ Place(s, j) < Place(s, i)
    BY <2>1, PlacesFollow, PrecedesIsTotal
  <2> QED BY <2>1, <2>2
<1>5. r \in [1..Len(s) -> Entry]
  BY <1>1, <1>2, <1>3
<1>6. r \in Seq(Entry) /\ Len(r) = Len(s)
  BY <1>3, <1>5
<1>7. ToSet(r) = ToSet(s)
  <2>1. \A i \in DOMAIN s : Place(s, i) \in DOMAIN s
    BY PlacesFollow
  <2>2. \A i \in DOMAIN s : r[Place(s, i)] = s[i]
    BY <1>2, <1>4, <2>1
  <2>3. DOMAIN r = DOMAIN s /\ \A n \in DOMAIN s : r[n] = s[at(n)]
    BY <1>2
  <2> QED BY <1>1, <2>1, <2>2, <2>3 DEF ToSet
<1>8. ASSUME NEW i \in DOMAIN r, NEW j \in DOMAIN r, i < j
      PROVE  r[i].days <= r[j].days
  <2>1. /\ i \in DOMAIN s /\ j \in DOMAIN s
        /\ r[i] = s[at(i)] /\ r[j] = s[at(j)]
    BY <1>2
  <2>2. /\ at(i) \in DOMAIN s /\ at(j) \in DOMAIN s
        /\ Place(s, at(i)) = i /\ Place(s, at(j)) = j
    BY <1>1, <2>1
  <2>3. ~ (j < i) /\ i # j
    BY <1>3, <1>8, <2>1
  <2>4. Precedes(s, at(i), at(j))
    BY <2>2, <2>3, PlacesFollow, PrecedesIsTotal
  <2>5. s[at(i)].days \in Int /\ s[at(j)].days \in Int
    BY <1>3, <2>2 DEF Entry
  <2> QED BY <2>1, <2>4, <2>5 DEF Precedes, Sooner
<1>9. ASSUME IsInjective(s), NEW i \in DOMAIN r, NEW j \in DOMAIN r, r[i] = r[j]
      PROVE  i = j
  <2>1. i \in DOMAIN s /\ j \in DOMAIN s /\ s[at(i)] = s[at(j)]
    BY <1>2, <1>9
  <2>2. at(i) = at(j)
    BY <1>1, <1>9, <2>1 DEF IsInjective
  <2> QED BY <1>1, <2>1, <2>2
<1> QED BY <1>6, <1>7, <1>8, <1>9 DEF IsInjective
-----------------------------------------------------------------------------
BdayValue == [dashed : BOOLEAN, digits : Seq(0..9)]

\* The birthday of a month and a day written in four digits, if there is one.
Dated(n, year) ==
  {b \in {[year |-> year, month |-> n \div 100, day |-> n % 100]} :
     IsDate(IF year = NoYear THEN 2024 ELSE year, b.month, b.day)}

\* Four digits are two numbers of two.
LEMMA FourDigits ==
  ASSUME NEW d, NEW i \in Nat, \A j \in i..(i + 3) : d[j] \in 0..9
  PROVE  /\ Number(d, i) \div 100 = Pair(d, i) /\ Number(d, i) % 100 = Pair(d, i + 2)
         /\ Number(d, i) = 100 * Pair(d, i) + Pair(d, i + 2) /\ Number(d, i) \in Nat
<1> DEFINE m == Pair(d, i)
           k == Pair(d, i + 2)
<1>1. d[i] \in 0..9 /\ d[i + 1] \in 0..9 /\ d[i + 2] \in 0..9 /\ d[i + 3] \in 0..9
  OBVIOUS
<1>2. m \in 0..99 /\ k \in 0..99
  <2>1. i + 2 + 1 = i + 3
    OBVIOUS
  <2> QED BY <1>1, <2>1 DEF Pair
<1>3. Number(d, i) = 100 * m + k
  <2> DEFINE a == d[i]
             b == d[i + 1]
             c == d[i + 2]
             e == d[i + 3]
  <2>1. i + 2 + 1 = i + 3
    OBVIOUS
  <2>2. m = 10 * a + b /\ k = 10 * c + e
    BY <2>1 DEF Pair
  <2>3. Number(d, i) = 1000 * a + 100 * b + 10 * c + e
    BY DEF Number
  <2>4. a \in Int /\ b \in Int /\ c \in Int /\ e \in Int
    BY <1>1
  <2> HIDE DEF a, b, c, e, m, k
  <2> QED BY <2>2, <2>3, <2>4
<1> HIDE DEF m, k
<1>4. (100 * m + k) \div 100 = m /\ (100 * m + k) % 100 = k /\ 100 * m + k \in Nat
  BY <1>2
<1>5. /\ Number(d, i) \div 100 = m /\ Number(d, i) % 100 = k
      /\ Number(d, i) = 100 * m + k /\ Number(d, i) \in Nat
  BY <1>3, <1>4
<1> QED BY <1>5 DEF m, k

\* What is a date in some year is one in 2024.
LEMMA LeapYearHasAll ==
  ASSUME NEW y \in Int, NEW m, NEW d, IsDate(y, m, d)
  PROVE  IsDate(2024, m, d) /\ m \in 1..12 /\ d \in 1..31
<1>1. IsLeap(2024)
  BY DEF IsLeap
<1> QED BY <1>1 DEF IsDate, DaysIn

\* parse_bday takes four digits after "--", or eight, for the date they write.
LEMMA ParsedIsWritten ==
  ASSUME NEW v \in BdayValue
  PROVE  /\ v.dashed /\ Len(v.digits) = 4 =>
              ParseBday(v) = Dated(Number(v.digits, 1), NoYear)
         /\ ~v.dashed /\ Len(v.digits) = 8 =>
              ParseBday(v) = Dated(Number(v.digits, 5), Number(v.digits, 1))
         /\ ~(v.dashed /\ Len(v.digits) = 4) /\ ~(~v.dashed /\ Len(v.digits) = 8) =>
              ParseBday(v) = {}
         /\ ParseBday(v) \subseteq Born
         /\ ParseBday(v) = {} \/ \E b : ParseBday(v) = {b}
<1> DEFINE d == v.digits
           born(y, m, k) == [year |-> y, month |-> m, day |-> k]
<1>1. v.dashed \in BOOLEAN /\ d \in Seq(0..9) /\ Len(d) \in Nat
  BY DEF BdayValue
<1>2. CASE v.dashed /\ Len(d) = 4
  <2> DEFINE m == Pair(d, 1)
             k == Pair(d, 3)
  <2>1. \A j \in 1..4 : d[j] \in 0..9
    BY <1>1, <1>2
  <2>2. Number(d, 1) \div 100 = m /\ Number(d, 1) % 100 = k
    <3>1. 1 + 2 = 3 /\ 1 + 3 = 4 /\ 1 \in Nat
      OBVIOUS
    <3>2. Number(d, 1) \div 100 = Pair(d, 1) /\ Number(d, 1) % 100 = Pair(d, 1 + 2)
      BY <2>1, <3>1, FourDigits
    <3> QED BY <3>1, <3>2
  <2>3. ParseBday(v) = IF IsDate(2024, m, k) THEN {born(NoYear, m, k)} ELSE {}
    BY <1>2 DEF ParseBday
  <2>4. Dated(Number(d, 1), NoYear) = IF IsDate(2024, m, k) THEN {born(NoYear, m, k)} ELSE {}
    <3> HIDE DEF m, k
    <3> QED BY <2>2 DEF Dated
  <2> HIDE DEF m, k
  <2>5. IsDate(2024, m, k) => born(NoYear, m, k) \in Born
    BY LeapYearHasAll DEF Born
  <2> QED BY <1>2, <2>3, <2>4, <2>5
<1>3. CASE ~v.dashed /\ Len(d) = 8
  <2> DEFINE m == Pair(d, 5)
             k == Pair(d, 7)
             y == Number(d, 1)
             z == 100 * Pair(d, 1) + Pair(d, 3)
  <2>1. \A j \in 1..8 : d[j] \in 0..9
    BY <1>1, <1>3
  <2>2. Number(d, 5) \div 100 = m /\ Number(d, 5) % 100 = k
    BY <2>1, FourDigits
  <2>3. y = z /\ y \in Nat
    BY <2>1, FourDigits
  <2>4. ParseBday(v) = IF IsDate(2024, m, k) /\ (z # NoYear => IsDate(z, m, k))
                       THEN {born(z, m, k)} ELSE {}
    BY <1>3 DEF ParseBday
  <2> HIDE DEF m, k, y, z
  <2>5. y # NoYear
    BY <2>3 DEF NoYear
  <2>6. Dated(Number(d, 5), y) = IF IsDate(y, m, k) THEN {born(y, m, k)} ELSE {}
    BY <2>2, <2>5 DEF Dated
  <2>7. IsDate(y, m, k) => IsDate(2024, m, k) /\ m \in 1..12 /\ k \in 1..31
    BY <2>3, LeapYearHasAll
  <2>8. IsDate(y, m, k) => born(y, m, k) \in Born
    BY <2>3, <2>7 DEF Born
  <2>9. ParseBday(v) = IF IsDate(y, m, k) THEN {born(y, m, k)} ELSE {}
    BY <2>3, <2>4, <2>5, <2>7
  <2> QED BY <1>3, <2>6, <2>8, <2>9 DEF y
<1>4. CASE ~(v.dashed /\ Len(d) = 4) /\ ~(~v.dashed /\ Len(d) = 8)
  <2>1. Len(d) # (IF v.dashed THEN 0 ELSE 4) + 4
    <3>1. CASE v.dashed
      BY <1>1, <1>4, <3>1
    <3>2. CASE ~v.dashed
      BY <1>1, <1>4, <3>2
    <3> QED BY <3>1, <3>2
  <2>2. ParseBday(v) = {}
    BY <2>1 DEF ParseBday
  <2> QED BY <1>4, <2>2
<1> QED BY <1>1, <1>2, <1>3, <1>4

\* So a contact's birthday is read as it is written.
LEMMA BirthdayRead ==
  ASSUME NEW contact \in Contact, \A v, w \in contact.bday : v = w
  PROVE  /\ UNION {ParseBday(v) : v \in contact.bday} = BirthdayOf(contact)
         /\ BirthdayOf(contact) \subseteq Born
         /\ BirthdayOf(contact) = {} \/ \E b \in Born : BirthdayOf(contact) = {b}
<1> DEFINE four == {v \in contact.bday : v.dashed /\ Len(v.digits) = 4}
           eight == {v \in contact.bday : ~v.dashed /\ Len(v.digits) = 8}
<1>1. contact.bday \in SUBSET BdayValue
  BY DEF Contact, BdayValue
<1> DEFINE fours == UNION {Dated(Number(v.digits, 1), NoYear) : v \in four}
           eights == UNION {Dated(Number(v.digits, 5), Number(v.digits, 1)) : v \in eight}
<1>2. BirthdayOf(contact) = fours \cup eights
  BY DEF BirthdayOf, Dated
<1>3. /\ \A v \in four : ParseBday(v) = Dated(Number(v.digits, 1), NoYear)
      /\ \A v \in eight : ParseBday(v) = Dated(Number(v.digits, 5), Number(v.digits, 1))
      /\ \A v \in contact.bday \ (four \cup eight) : ParseBday(v) = {}
      /\ \A v \in contact.bday : ParseBday(v) \subseteq Born
      /\ \A v \in contact.bday : ParseBday(v) = {} \/ \E b : ParseBday(v) = {b}
  BY <1>1, ParsedIsWritten
<1>4. four \subseteq contact.bday /\ eight \subseteq contact.bday
  OBVIOUS
<1> HIDE DEF four, eight
<1>7. \A b : b \in BirthdayOf(contact) <=>
              \/ \E v \in four : b \in Dated(Number(v.digits, 1), NoYear)
              \/ \E v \in eight : b \in Dated(Number(v.digits, 5), Number(v.digits, 1))
  <2>1. \A b : b \in fours <=> \E v \in four : b \in Dated(Number(v.digits, 1), NoYear)
    OBVIOUS
  <2>2. \A b : b \in eights <=>
               \E v \in eight : b \in Dated(Number(v.digits, 5), Number(v.digits, 1))
    OBVIOUS
  <2> HIDE DEF fours, eights
  <2> QED BY <1>2, <2>1, <2>2
<1>5. UNION {ParseBday(v) : v \in contact.bday} = BirthdayOf(contact)
  <2>1. ASSUME NEW v \in contact.bday, NEW b \in ParseBday(v)
        PROVE  b \in BirthdayOf(contact)
    <3>1. CASE v \in four
      <4>1. b \in Dated(Number(v.digits, 1), NoYear)
        BY <1>3, <2>1, <3>1
      <4> QED BY <1>7, <3>1, <4>1
    <3>2. CASE v \in eight
      <4>1. b \in Dated(Number(v.digits, 5), Number(v.digits, 1))
        BY <1>3, <2>1, <3>2
      <4> QED BY <1>7, <3>2, <4>1
    <3>3. v \in four \/ v \in eight
      BY <1>3, <2>1
    <3> QED BY <3>1, <3>2, <3>3
  <2>2. ASSUME NEW b \in BirthdayOf(contact)
        PROVE  \E v \in contact.bday : b \in ParseBday(v)
    <3>1. CASE \E v \in four : b \in Dated(Number(v.digits, 1), NoYear)
      BY <1>3, <1>4, <3>1
    <3>2. CASE \E v \in eight : b \in Dated(Number(v.digits, 5), Number(v.digits, 1))
      BY <1>3, <1>4, <3>2
    <3> QED BY <1>7, <2>2, <3>1, <3>2
  <2> QED BY <2>1, <2>2
<1>6. UNION {ParseBday(v) : v \in contact.bday} \subseteq Born
  BY <1>3
<1>8. BirthdayOf(contact) = {} \/ \E b : BirthdayOf(contact) = {b}
  <2>1. CASE contact.bday = {}
    BY <1>5, <2>1
  <2>2. CASE contact.bday # {}
    <3>1. PICK v \in contact.bday : contact.bday = {v}
      BY <2>2
    <3>2. BirthdayOf(contact) = ParseBday(v)
      BY <1>5, <3>1
    <3> QED BY <1>3, <3>2
  <2> QED BY <2>1, <2>2
<1> QED BY <1>5, <1>6, <1>8
-----------------------------------------------------------------------------
\* A contact that has one BDAY at most.
OneBday == {k \in Contact : \A v, w \in k.bday : v = w}

\* What upcoming_birthdays would list of a contact whose BDAY reads as given.
ListedOf(contact, bday, today, days) ==
  UNION {{[href |-> contact.href, name |-> contact.name, days |-> n,
           turning |-> Turning(b, today)] : n \in WithinWindow(b, today, days)} : b \in bday}

\* It lists of a contact what is due, which is one entry or none.
LEMMA ListedIsDue ==
  ASSUME NEW contact \in OneBday, NEW today \in Day, NEW days \in 1..MaxBirthdayDays
  PROVE  /\ ListedOf(contact, BirthdayOf(contact), today, days) = Due(contact, today, days)
         /\ \/ Due(contact, today, days) = {}
            \/ \E e \in Entry : e.href = contact.href /\ Due(contact, today, days) = {e}
<1> DEFINE listed == ListedOf(contact, BirthdayOf(contact), today, days)
           due == Due(contact, today, days)
           entry(n, turning) == [href |-> contact.href, name |-> contact.name,
                                 days |-> n, turning |-> turning]
           age(b, y) == IF b.year = NoYear THEN {} ELSE {y - b.year}
           near(b) == {a \in Nearest(b, today) : a[1] <= days}
<1>1. /\ \A x : x \in listed <=> \E b \in BirthdayOf(contact) :
                  \E n \in WithinWindow(b, today, days) : x = entry(n, Turning(b, today))
  BY DEF ListedOf
<1>2. /\ \A x : x \in due <=> \E b \in BirthdayOf(contact) :
                  \E a \in near(b) : x = entry(a[1], age(b, a[2]))
  BY DEF Due
<1>3. contact \in Contact /\ \A v, w \in contact.bday : v = w
  BY DEF OneBday
<1>4. BirthdayOf(contact) = {} \/ \E b \in Born : BirthdayOf(contact) = {b}
  BY <1>3, BirthdayRead
<1>5. CASE BirthdayOf(contact) = {}
  BY <1>1, <1>2, <1>5
<1>6. ASSUME NEW b \in Born, BirthdayOf(contact) = {b}
      PROVE  /\ listed = due
             /\ due = {} \/ \E e \in Entry : e.href = contact.href /\ due = {e}
  <2>1. \/ WithinWindow(b, today, days) = {} /\ near(b) = {}
        \/ \E n, y \in Int :
             /\ WithinWindow(b, today, days) = {n} /\ near(b) = {<<n, y>>}
             /\ Turning(b, today) = age(b, y)
    BY WindowFindsNearest
  <2>2. CASE WithinWindow(b, today, days) = {} /\ near(b) = {}
    <3> HIDE DEF listed, due, entry, age, near
    <3> QED BY <1>1, <1>2, <1>6, <2>2
  <2>3. ASSUME NEW n \in Int, NEW y \in Int, WithinWindow(b, today, days) = {n},
               near(b) = {<<n, y>>}, Turning(b, today) = age(b, y)
        PROVE  /\ listed = due
               /\ due = {} \/ \E e \in Entry : e.href = contact.href /\ due = {e}
    <3> DEFINE e == entry(n, age(b, y))
    <3>1. <<n, y>>[1] = n /\ <<n, y>>[2] = y
      OBVIOUS
    <3>2. b.year \in Int
      BY DEF Born, NoYear
    <3>3. e \in Entry /\ e.href = contact.href
      BY <1>3, <3>2 DEF Entry, Contact
    <3> HIDE DEF listed, due, near
    <3>4. listed = {entry(n, Turning(b, today))}
      <4> HIDE DEF entry, age
      <4> QED BY <1>1, <1>6, <2>3
    <3>5. due = {e}
      <4> DEFINE a == <<n, y>>
      <4>1. a[1] = n /\ a[2] = y
        BY <3>1
      <4> HIDE DEF entry, age, a
      <4>2. \A x : x \in due <=> x = entry(a[1], age(b, a[2]))
        BY <1>2, <1>6, <2>3 DEF a
      <4>3. \A x : x \in due <=> x = entry(n, age(b, y))
        BY <4>1, <4>2
      <4> QED BY <4>3 DEF e
    <3> QED BY <2>3, <3>3, <3>4, <3>5
  <2> QED BY <2>1, <2>2, <2>3
<1> QED BY <1>4, <1>5, <1>6

\* What the loop has so far.
SoFar == [birthdays : Seq(Entry), scanned : Nat, unparseable : Nat]

\* A contact whose BDAY is no date.
Unreadable(contact) == contact.bday # {} /\ BirthdayOf(contact) = {}

\* One contact is counted, and what is due of it is pushed.
LEMMA Considered ==
  ASSUME NEW contact \in OneBday, NEW today \in Day, NEW days \in 1..MaxBirthdayDays,
         NEW found \in SoFar,
         NEW next, next = Consider(found, contact, today, days),
         NEW due, due = Due(contact, today, days)
  PROVE  /\ next \in SoFar /\ next.scanned = found.scanned + 1
         /\ next.unparseable = found.unparseable + (IF Unreadable(contact) THEN 1 ELSE 0)
         /\ \/ due = {} /\ next.birthdays = found.birthdays
            \/ \E e \in Entry : /\ e.href = contact.href /\ due = {e}
                                /\ next.birthdays = Append(found.birthdays, e)
<1> DEFINE seen == [found EXCEPT !.scanned = @ + 1]
           bday == UNION {ParseBday(v) : v \in contact.bday}
           listed == ListedOf(contact, bday, today, days)
<1>1. contact \in Contact /\ \A v, w \in contact.bday : v = w
  BY DEF OneBday
<1>2. bday = BirthdayOf(contact)
  BY <1>1, BirthdayRead
<1>3. listed = due
  BY <1>2, ListedIsDue
<1>4. next = IF contact.bday # {} /\ bday = {} THEN [seen EXCEPT !.unparseable = @ + 1]
             ELSE IF listed = {} THEN seen
             ELSE [seen EXCEPT !.birthdays = Append(@, CHOOSE e \in listed : TRUE)]
  BY Zenon DEF Consider, ListedOf
<1>5. due = {} \/ \E e \in Entry : e.href = contact.href /\ due = {e}
  BY ListedIsDue
<1>6. Unreadable(contact) => due = {}
  BY DEF Unreadable, Due
<1>7. Unreadable(contact) <=> contact.bday # {} /\ bday = {}
  BY <1>2 DEF Unreadable
<1> HIDE DEF bday, listed
<1>8. seen = [birthdays |-> found.birthdays, scanned |-> found.scanned + 1,
              unparseable |-> found.unparseable]
      /\ found.birthdays \in Seq(Entry) /\ found.scanned \in Nat /\ found.unparseable \in Nat
  BY DEF SoFar
<1> HIDE DEF seen
<1>9. CASE Unreadable(contact)
  <2>1. next = [birthdays |-> found.birthdays, scanned |-> found.scanned + 1,
                unparseable |-> found.unparseable + 1]
    BY <1>4, <1>7, <1>8, <1>9
  <2>2. next \in SoFar
    BY <1>8, <2>1 DEF SoFar
  <2> QED BY <1>6, <1>9, <2>1, <2>2
<1>10. CASE ~Unreadable(contact) /\ due = {}
  <2>1. next = seen
    BY <1>3, <1>4, <1>7, <1>10
  <2>2. next \in SoFar
    BY <1>8, <2>1 DEF SoFar
  <2> QED BY <1>8, <1>10, <2>1, <2>2
<1>11. CASE ~Unreadable(contact) /\ due # {}
  <2>1. PICK e \in Entry : e.href = contact.href /\ due = {e}
    BY <1>5, <1>11
  <2>2. (CHOOSE x \in listed : TRUE) = e
    BY <1>3, <2>1
  <2>3. next = [birthdays |-> Append(found.birthdays, e), scanned |-> found.scanned + 1,
                unparseable |-> found.unparseable]
    BY <1>3, <1>4, <1>7, <1>8, <1>11, <2>2
  <2>4. next \in SoFar
    BY <1>8, <2>3 DEF SoFar
  <2> QED BY <1>8, <1>11, <2>1, <2>3, <2>4
<1> QED BY <1>9, <1>10, <1>11

\* The loop's first state, and what a contact makes of one.
NothingYet == [birthdays |-> <<>>, scanned |-> 0, unparseable |-> 0]

\* The loop's states follow one another.
LEMMA FoundFollows ==
  ASSUME NEW book \in Seq(Contact), NEW today, NEW days,
         NEW found, found = Found(book, today, days)
  PROVE  found = [n \in 0..Len(book) |->
                    IF n = 0 THEN NothingYet
                    ELSE Consider(found[n - 1], book[n], today, days)]
<1> DEFINE step(f, n) == IF n = 0 THEN NothingYet
                         ELSE Consider(f[n - 1], book[n], today, days)
           loop(f, k) == f = [n \in 0..k |-> step(f, n)]
           S == {k \in 0..Len(book) : \E f : loop(f, k)}
<1>1. Len(book) \in Nat
  OBVIOUS
<1>2. 0 \in S
  <2> DEFINE f == [n \in 0..0 |-> NothingYet]
  <2>1. loop(f, 0)
    <3>1. \A n \in 0..0 : step(f, n) = NothingYet
      OBVIOUS
    <3> QED BY <3>1 
  <2>2. 0 \in 0..Len(book)
    BY <1>1
  <2> HIDE DEF loop
  <2> QED BY <2>1, <2>2
<1>3. ASSUME NEW k \in 0..(Len(book) - 1), k \in S
      PROVE  k + 1 \in S
  <2>1. PICK f : loop(f, k)
    BY <1>3
  <2> DEFINE g == [n \in 0..(k + 1) |-> IF n = k + 1 THEN step(f, n) ELSE f[n]]
  <2>2. \A n \in 0..(k + 1) : g[n] = step(g, n)
    <3>1. ASSUME NEW n \in 0..(k + 1)
          PROVE  g[n] = step(f, n) /\ step(g, n) = step(f, n)
      <4>1. g[n] = step(f, n)
        <5>1. CASE n = k + 1
          BY <5>1
        <5>2. CASE n # k + 1
          <6>1. n \in 0..k /\ g[n] = f[n]
            BY <5>2
          <6>2. f[n] = step(f, n)
            <7> HIDE DEF step
            <7> QED BY <2>1, <6>1
          <6> QED BY <6>1, <6>2
        <5> QED BY <5>1, <5>2
      <4>2. n # 0 => g[n - 1] = f[n - 1]
        BY DEF step
      <4> QED BY <4>1, <4>2
    <3> QED BY <3>1
  <2>3. loop(g, k + 1)
    <3> HIDE DEF step
    <3>1. g = [n \in 0..(k + 1) |-> g[n]]
      OBVIOUS
    <3> HIDE DEF g
    <3> QED BY <2>2, <3>1, Zenon
  <2>4. k + 1 \in 0..Len(book)
    BY <1>1
  <2> HIDE DEF loop
  <2> QED BY <2>3, <2>4
<1>4. Len(book) \in S
  <2> HIDE DEF S
  <2>1. \A n \in 0..Len(book) : n \in S
    BY <1>1, <1>2, <1>3, AllReached
  <2> QED BY <1>1, <2>1
<1>5. \E f : loop(f, Len(book))
  <2> HIDE DEF loop
  <2> QED BY <1>4
<1>6. found = CHOOSE f : loop(f, Len(book))
  BY Zenon DEF Found, NothingYet
<1>7. loop(found, Len(book))
  <2> HIDE DEF loop
  <2> QED BY <1>5, <1>6, Zenon
<1> QED BY <1>7

\* What is due of a contact bears its href.
LEMMA DueIsOfContact ==
  ASSUME NEW contact, NEW today, NEW days, NEW e \in Due(contact, today, days)
  PROVE  e.href = contact.href
<1>1. \E b \in BirthdayOf(contact) : \E a \in Nearest(b, today) :
        e = [href |-> contact.href, name |-> contact.name, days |-> a[1],
             turning |-> IF b.year = NoYear THEN {} ELSE {a[2] - b.year}]
  BY DEF Due
<1> QED BY <1>1

\* One more is counted when it is to be.
LEMMA OneMoreCounted ==
  ASSUME NEW n \in Nat, NEW C, NEW before, before = {i \in 1..n : i \in C},
         NEW now, now = {i \in 1..(n + 1) : i \in C}
  PROVE  Cardinality(now) = Cardinality(before) + (IF n + 1 \in C THEN 1 ELSE 0)
<1>1. IsFiniteSet(1..n)
  BY FS_Interval
<1>2. IsFiniteSet(before) /\ Cardinality(before) \in Nat
  BY <1>1, FS_Subset, FS_CardinalityType
<1>3. CASE n + 1 \in C
  <2>1. now = before \cup {n + 1} /\ n + 1 \notin before
    BY <1>3
  <2>2. Cardinality(before \cup {n + 1}) = Cardinality(before) + 1
    BY <1>2, <2>1, FS_AddElement
  <2> QED BY <1>3, <2>1, <2>2
<1>4. CASE n + 1 \notin C
  <2>1. now = before
    BY <1>4
  <2> QED BY <1>2, <1>4, <2>1
<1> QED BY <1>3, <1>4

\* A sequence with another element at its end.
LEMMA Appended ==
  ASSUME NEW T, NEW s \in Seq(T), NEW e \in T, NEW r, r = Append(s, e)
  PROVE  /\ ToSet(r) = ToSet(s) \cup {e}
         /\ e \notin ToSet(s) /\ IsInjective(s) => IsInjective(r)
<1>1. /\ Len(s) \in Nat /\ Len(r) = Len(s) + 1
      /\ DOMAIN s = 1..Len(s) /\ DOMAIN r = 1..Len(r)
      /\ r[Len(r)] = e /\ \A i \in 1..Len(s) : r[i] = s[i]
  OBVIOUS
<1>2. \A i \in DOMAIN r : i \in DOMAIN s \/ i = Len(r)
  BY <1>1
<1>3. \A i \in DOMAIN s : i \in DOMAIN r /\ s[i] \in ToSet(s)
  BY <1>1 DEF ToSet
<1>4. ToSet(r) = ToSet(s) \cup {e}
  <2>1. \A x : x \in ToSet(r) <=> x \in ToSet(s) \cup {e}
    <3>1. \A x : x \in ToSet(r) <=> \E i \in DOMAIN r : r[i] = x
      BY DEF ToSet
    <3>2. \A x : x \in ToSet(s) <=> \E i \in DOMAIN s : s[i] = x
      BY DEF ToSet
    <3> QED BY <1>1, <1>2, <1>3, <3>1, <3>2
  <2> QED BY <2>1
<1>5. ASSUME e \notin ToSet(s), IsInjective(s),
             NEW i \in DOMAIN r, NEW j \in DOMAIN r, r[i] = r[j]
      PROVE  i = j
  <2>1. \A k, l \in DOMAIN s : s[k] = s[l] => k = l
    BY <1>5 DEF IsInjective
  <2> QED BY <1>1, <1>2, <1>3, <1>5, <2>1
<1>6. e \notin ToSet(s) /\ IsInjective(s) => IsInjective(r)
  BY <1>5 DEF IsInjective
<1> QED BY <1>4, <1>6

\* A sequence without duplicates has as many places as elements.
LEMMA AsManyAsPlaces ==
  ASSUME NEW T, NEW s \in Seq(T), \A i, j \in DOMAIN s : s[i] = s[j] => i = j
  PROVE  Cardinality(ToSet(s)) = Len(s)
<1>1. Len(s) \in Nat /\ DOMAIN s = 1..Len(s)
  OBVIOUS
<1>2. IsFiniteSet(1..Len(s)) /\ Cardinality(1..Len(s)) = Len(s)
  BY <1>1, FS_Interval, SMTT(30)
<1>3. s \in Bijection(1..Len(s), ToSet(s))
  BY <1>1 DEF Bijection, Injection, IsInjective, Surjection, ToSet
<1>4. ExistsBijection(1..Len(s), ToSet(s))
  BY <1>3 DEF ExistsBijection
<1> QED BY <1>2, <1>4, FS_Bijection

\* What is due of the contacts of a book, and which of them have a BDAY that
\* is no date.
DueIn(book, today, days) == UNION {Due(book[i], today, days) : i \in DOMAIN book}
UnreadableIn(book) == {i \in DOMAIN book : Unreadable(book[i])}

\* What the loop has after some of its contacts is what is due of them.
LEMMA FoundIsDue ==
  ASSUME NEW book \in Seq(Contact), \A i \in DOMAIN book : book[i] \in OneBday,
         \A i, j \in DOMAIN book : book[i].href = book[j].href => i = j,
         NEW today \in Day, NEW days \in 1..MaxBirthdayDays,
         NEW found, found = Found(book, today, days)
  PROVE  /\ found[Len(book)] \in SoFar
         /\ found[Len(book)].scanned = Len(book)
         /\ found[Len(book)].unparseable
              = Cardinality(UnreadableIn(book))
         /\ ToSet(found[Len(book)].birthdays) = DueIn(book, today, days)
         /\ IsInjective(found[Len(book)].birthdays)
<1> DEFINE unread == {i \in DOMAIN book : Unreadable(book[i])}
           due(i) == Due(book[i], today, days)
           kept(n) == /\ found[n] \in SoFar
                      /\ found[n].scanned = n
                      /\ found[n].unparseable = Cardinality({i \in 1..n : i \in unread})
                      /\ ToSet(found[n].birthdays) = UNION {due(i) : i \in 1..n}
                      /\ IsInjective(found[n].birthdays)
           S == {n \in 0..Len(book) : kept(n)}
<1>1. Len(book) \in Nat /\ DOMAIN book = 1..Len(book)
  OBVIOUS
<1>2. /\ found[0] = NothingYet
      /\ \A n \in 0..(Len(book) - 1) : found[n + 1]
           = Consider(found[n], book[n + 1], today, days)
  <2> DEFINE step(n) == IF n = 0 THEN NothingYet
                        ELSE Consider(found[n - 1], book[n], today, days)
  <2>1. found = [n \in 0..Len(book) |-> step(n)]
    BY FoundFollows
  <2>2. \A n \in 0..Len(book) : found[n] = step(n)
    <3> HIDE DEF step
    <3> QED BY <2>1
  <2>3. 0 \in 0..Len(book) /\ found[0] = NothingYet
    BY <1>1, <2>2
  <2>4. ASSUME NEW n \in 0..(Len(book) - 1)
        PROVE  found[n + 1] = Consider(found[n], book[n + 1], today, days)
    <3>1. n + 1 \in 0..Len(book) /\ n + 1 # 0 /\ (n + 1) - 1 = n
      BY <1>1
    <3>2. found[n + 1] = Consider(found[(n + 1) - 1], book[n + 1], today, days)
      BY <2>2, <3>1, Zenon
    <3> QED BY <3>1, <3>2
  <2> QED BY <2>3, <2>4
<1>3. kept(0)
  <2>1. {i \in 1..0 : i \in unread} = {} /\ UNION {due(i) : i \in 1..0} = {}
    <3> HIDE DEF due, unread
    <3> QED OBVIOUS
  <2>2. Cardinality({}) = 0
    BY FS_EmptySet
  <2>3. ToSet(<<>>) = {} /\ IsInjective(<<>>) /\ <<>> \in Seq(Entry)
    BY DEF ToSet, IsInjective
  <2>4. /\ found[0].birthdays = <<>> /\ found[0].scanned = 0 /\ found[0].unparseable = 0
        /\ found[0] \in SoFar
    BY <1>2, <2>3 DEF NothingYet, SoFar
  <2> HIDE DEF due, unread
  <2> QED BY <2>1, <2>2, <2>3, <2>4
<1>4. ASSUME NEW n \in 0..(Len(book) - 1), kept(n)
      PROVE  kept(n + 1)
  <2>1. n \in Nat /\ n + 1 \in DOMAIN book /\ 1..n \subseteq DOMAIN book
    BY <1>1
  <2> DEFINE contact == book[n + 1]
             next == found[n + 1]
  <2>2. contact \in OneBday
    BY <2>1
  <2>3. next = Consider(found[n], contact, today, days)
    BY <1>2
  <2>4. /\ next \in SoFar /\ next.scanned = found[n].scanned + 1
        /\ next.unparseable = found[n].unparseable + (IF Unreadable(contact) THEN 1 ELSE 0)
        /\ \/ due(n + 1) = {} /\ next.birthdays = found[n].birthdays
           \/ \E e \in Entry : /\ e.href = contact.href /\ due(n + 1) = {e}
                               /\ next.birthdays = Append(found[n].birthdays, e)
    <3> DEFINE had == found[n]
               is == due(n + 1)
    <3>1. had \in SoFar
      BY <1>4
    <3>2. is = Due(contact, today, days)
      OBVIOUS
    <3>3. next = Consider(had, contact, today, days)
      BY <2>3
    <3> HIDE DEF due, contact, next, had, is
    <3>4. /\ next \in SoFar /\ next.scanned = had.scanned + 1
          /\ next.unparseable = had.unparseable + (IF Unreadable(contact) THEN 1 ELSE 0)
          /\ \/ is = {} /\ next.birthdays = had.birthdays
             \/ \E e \in Entry : /\ e.href = contact.href /\ is = {e}
                                 /\ next.birthdays = Append(had.birthdays, e)
      BY <2>2, <3>1, <3>2, <3>3, Considered
    <3> QED BY <3>4 DEF had, is
  <2>5. next.scanned = n + 1
    BY <1>4, <2>4
  <2>6. next.unparseable = Cardinality({i \in 1..(n + 1) : i \in unread})
    <3> DEFINE before == {i \in 1..n : i \in unread}
               now == {i \in 1..(n + 1) : i \in unread}
    <3>1. Cardinality(now) = Cardinality(before) + (IF n + 1 \in unread THEN 1 ELSE 0)
      <4>1. before = {i \in 1..n : i \in unread} /\ now = {i \in 1..(n + 1) : i \in unread}
        OBVIOUS
      <4> HIDE DEF unread, before, now
      <4> QED BY <2>1, <4>1, OneMoreCounted
    <3>2. n + 1 \in unread <=> Unreadable(contact)
      BY <2>1
    <3> HIDE DEF unread, contact, next
    <3>3. found[n].unparseable = Cardinality(before)
      BY <1>4
    <3>4. next.unparseable = Cardinality(now)
      <4> HIDE DEF before, now
      <4> QED BY <2>4, <3>1, <3>2, <3>3
    <3> QED BY <3>4
  <2>7. UNION {due(i) : i \in 1..(n + 1)} = (UNION {due(i) : i \in 1..n}) \cup due(n + 1)
    <3> HIDE DEF due
    <3>1. \A i \in Int : i \in 1..(n + 1) <=> i \in 1..n \/ i = n + 1
      BY <2>1
    <3>2. \A x : x \in UNION {due(i) : i \in 1..(n + 1)}
                   <=> x \in UNION {due(i) : i \in 1..n} \/ x \in due(n + 1)
      BY <2>1, <3>1
    <3> QED BY <3>2
  <2>8. CASE due(n + 1) = {} /\ next.birthdays = found[n].birthdays
    <3> HIDE DEF due, unread, next
    <3> QED BY <1>4, <2>4, <2>5, <2>6, <2>7, <2>8 DEF next
  <2>9. ASSUME NEW e \in Entry, e.href = contact.href, due(n + 1) = {e},
               next.birthdays = Append(found[n].birthdays, e)
        PROVE  kept(n + 1)
    <3>1. found[n].birthdays \in Seq(Entry)
      BY <1>4 DEF SoFar
    <3>2. e \notin ToSet(found[n].birthdays)
      <4>1. SUFFICES ASSUME e \in ToSet(found[n].birthdays)
                     PROVE  FALSE
        OBVIOUS
      <4>2. PICK i \in 1..n : e \in due(i)
        <5> HIDE DEF due
        <5> QED BY <1>4, <4>1
      <4>3. e.href = book[i].href
        BY <4>2, DueIsOfContact
      <4>4. i \in DOMAIN book /\ i # n + 1
        BY <2>1
      <4>5. book[i].href = book[n + 1].href
        BY <2>9, <4>3
      <4> QED BY <2>1, <4>4, <4>5
    <3>3. /\ ToSet(next.birthdays) = ToSet(found[n].birthdays) \cup {e}
          /\ IsInjective(next.birthdays)
      <4> DEFINE had == found[n].birthdays
                 has == next.birthdays
      <4>1. had \in Seq(Entry) /\ IsInjective(had) /\ e \notin ToSet(had)
        BY <1>4, <3>1, <3>2
      <4>2. has = Append(had, e)
        BY <2>9
      <4> HIDE DEF had, has
      <4>3. ToSet(has) = ToSet(had) \cup {e} /\ IsInjective(has)
        BY <4>1, <4>2, Appended
      <4> QED BY <4>3 DEF had, has
    <3>4. ToSet(next.birthdays) = UNION {due(i) : i \in 1..(n + 1)}
      <4> HIDE DEF next, due
      <4> QED BY <1>4, <2>7, <2>9, <3>3
    <3> HIDE DEF due, unread, next
    <3> QED BY <2>4, <2>5, <2>6, <3>3, <3>4 DEF next
  <2> HIDE DEF due, next, kept
  <2> QED BY <2>4, <2>8, <2>9
<1>5. kept(Len(book))
  <2>1. 0 \in S /\ \A n \in 0..(Len(book) - 1) : n \in S => n + 1 \in S
    <3> HIDE DEF kept
    <3> QED BY <1>1, <1>3, <1>4
  <2>2. \A n \in 0..Len(book) : n \in S
    <3> HIDE DEF S
    <3> QED BY <1>1, <2>1, AllReached
  <2> HIDE DEF kept
  <2> QED BY <1>1, <2>2
<1>6. {i \in 1..Len(book) : i \in unread} = unread
  <2> DEFINE bad(i) == Unreadable(book[i])
  <2> HIDE DEF bad
  <2>1. {i \in 1..Len(book) : i \in {k \in DOMAIN book : bad(k)}}
          = {k \in DOMAIN book : bad(k)}
    BY <1>1
  <2> QED BY <2>1 DEF bad
<1> HIDE DEF unread, due
<1> QED BY <1>1, <1>5, <1>6 DEF unread, due, DueIn, UnreadableIn

\* What BirthdaysInWindow asks of an answer.
ListsDue(listed, book, today, days) ==
  \E r \in listed :
    /\ ToSet(r.birthdays) = UNION {Due(book[i], today, days) : i \in DOMAIN book}
    /\ Len(r.birthdays) = Cardinality(ToSet(r.birthdays))
    /\ \A i, j \in DOMAIN r.birthdays :
         i < j => r.birthdays[i].days <= r.birthdays[j].days
    /\ r.scanned = Len(book)
    /\ r.unparseable = Cardinality({i \in DOMAIN book :
                         book[i].bday # {} /\ BirthdayOf(book[i]) = {}})

\* The tool's answer lists what is due.
LEMMA DueIsListed ==
  ASSUME NEW book \in AddressBooks, NEW today \in Dates, NEW days \in 1..MaxBirthdayDays,
         NEW listed, listed = UpcomingBirthdays(book, today, days)
  PROVE  ListsDue(listed, book, today, days)
<1> DEFINE found == Found(book, today, days)
           last == found[Len(book)]
           sorted == SortBySooner(last.birthdays)
           r == [birthdays |-> sorted, scanned |-> last.scanned,
                 unparseable |-> last.unparseable]
           due == DueIn(book, today, days)
           unread == UnreadableIn(book)
<1>1. /\ book \in Seq(Contact) /\ \A i \in DOMAIN book : book[i] \in OneBday
      /\ \A i, j \in DOMAIN book : book[i].href = book[j].href => i = j
  <2>1. /\ book \in Seq(Contact)
        /\ \A i \in DOMAIN book : \A v, w \in book[i].bday : v = w
        /\ \A i, j \in DOMAIN book : book[i].href = book[j].href => i = j
    BY BirthdaysAssumption
  <2>2. \A i \in DOMAIN book : book[i] \in Contact
    BY <2>1
  <2> QED BY <2>1, <2>2 DEF OneBday
<1>2. today \in Day
  BY BirthdaysAssumption DEF Day
<1>3. /\ last \in SoFar /\ last.scanned = Len(book)
      /\ last.unparseable = Cardinality(unread)
      /\ ToSet(last.birthdays) = due /\ IsInjective(last.birthdays)
  <2>1. found = Found(book, today, days)
    OBVIOUS
  <2> HIDE DEF found
  <2> QED BY <1>1, <1>2, <2>1, FoundIsDue
<1>4. listed = {[last EXCEPT !.birthdays = SortBySooner(@)]}
  <2>1. ~ (days = 0 \/ days > MaxBirthdayDays)
    BY BirthdayAssumption
  <2> QED BY <2>1, Zenon DEF UpcomingBirthdays
<1> HIDE DEF last, unread, due
<1>5. listed = {r}
  BY <1>3, <1>4 DEF SoFar
<1>6. /\ sorted \in Seq(Entry) /\ Len(sorted) = Len(last.birthdays)
      /\ ToSet(sorted) = ToSet(last.birthdays)
      /\ \A i, j \in DOMAIN sorted : i < j => sorted[i].days <= sorted[j].days
      /\ IsInjective(sorted)
  <2>1. last.birthdays \in Seq(Entry)
    BY <1>3 DEF SoFar
  <2> QED BY <1>3, <2>1, SortedBySooner
<1> HIDE DEF sorted
<1>7. Len(sorted) = Cardinality(ToSet(sorted))
  BY <1>6, AsManyAsPlaces DEF IsInjective
<1>8. r.birthdays = sorted /\ r.scanned = last.scanned /\ r.unparseable = last.unparseable
  OBVIOUS
<1>9. unread = {i \in DOMAIN book : book[i].bday # {} /\ BirthdayOf(book[i]) = {}}
  BY DEF unread, UnreadableIn, Unreadable
<1> HIDE DEF r
<1> QED BY <1>3, <1>5, <1>6, <1>7, <1>8, <1>9 DEF due, DueIn, ListsDue

\* upcoming_birthdays lists what it should, whatever the books, the day and
\* the window.
THEOREM BirthdaysListed == Spec => []BirthdaysInWindow
<1>1. Init => BirthdaysInWindow
  BY DEF Init, BirthdaysInWindow
<1>2. BirthdaysInWindow /\ [Next]_vars => BirthdaysInWindow'
  <2> SUFFICES ASSUME BirthdaysInWindow, [Next]_vars
               PROVE  BirthdaysInWindow'
    OBVIOUS
  <2>1. CASE ListBirthdays
    <3>1. PICK book \in AddressBooks, today \in Dates, days \in Windows :
            Call("birthdays", [book |-> book, today |-> today, days |-> days],
                 UpcomingBirthdays(book, today, days))
      BY <2>1, Zenon DEF ListBirthdays
    <3>2. /\ given'.book = book /\ given'.today = today /\ given'.days = days
          /\ answer' = UpcomingBirthdays(book, today, days)
      BY <3>1 DEF Call
    <3>3. CASE days \in 1..MaxBirthdayDays
      <4>1. ListsDue(answer', given'.book, given'.today, given'.days)
        BY <3>2, <3>3, DueIsListed
      <4> QED BY <4>1, Zenon DEF BirthdaysInWindow, ListsDue
    <3>4. CASE days \notin 1..MaxBirthdayDays
      BY <3>2, <3>4 DEF BirthdaysInWindow
    <3> QED BY <3>3, <3>4
  <2>2. CASE UNCHANGED vars
    BY <2>2 DEF vars, BirthdaysInWindow
  <2>3. CASE WriteCard \/ ReadCard \/ RegisterClient \/ ReadMultistatus \/ SignIn \/ PresentToken
    <3>1. code' # "birthdays"
      BY <2>3 DEF WriteCard, ReadCard, RegisterClient, ReadMultistatus, SignIn,
         PresentToken, Call
    <3> QED BY <3>1 DEF BirthdaysInWindow
  <2> QED BY <2>1, <2>2, <2>3 DEF Next
<1> QED BY <1>1, <1>2, PTL DEF Spec
-----------------------------------------------------------------------------
(***************************************************************************)
(* vCard text.  A loop of VCardText is an instance of Loops, whose lemmas  *)
(* unroll it by one step and carry an invariant along it, with the body of *)
(* the loop as its Step.  First, what the loops of the writer leave.       *)
(***************************************************************************)
\* The bodies of VCardText's loops, with the parameter of the two that have one.
Add(p, n, c) == n + Width(c)
Substitute(p, out, c) == out \o (IF c = p[1] THEN p[2] ELSE <<c>>)
Cut(at, parts, c) ==
  IF c = at THEN Append(parts, <<>>) ELSE [parts EXCEPT ![Len(parts)] = Append(@, c)]
FoldOn(p, acc, c) == Folded(acc, c)
WriteOn(p, out, line) == out \o Fold(line) \o <<"CR", "LF">>

Adding == INSTANCE Loops WITH Step <- Add
Replacing == INSTANCE Loops WITH Step <- Substitute
Splitting == INSTANCE Loops WITH Step <- Cut
Folding == INSTANCE Loops WITH Step <- FoldOn
Writing == INSTANCE Loops WITH Step <- WriteOn

\* Bytes counts each symbol.
LEMMA BytesCount ==
  /\ Bytes(<<>>) = 0
  /\ \A s \in Strings : \A c \in Symbols : Bytes(Append(s, c)) = Bytes(s) + Width(c)
<1>1. \A s : Bytes(s) = Adding!Loop(0, 0, s)
  BY Zenon DEF Bytes, Run, Adding!Loop, Add
<1>2. ASSUME NEW s \in Strings, NEW c \in Symbols
      PROVE  Bytes(Append(s, c)) = Bytes(s) + Width(c)
  <2>1. Adding!Loop(0, 0, Append(s, c)) = Add(0, Adding!Loop(0, 0, s), c)
    BY Adding!LoopUnrolls DEF Strings
  <2> QED BY <1>1, <2>1, Zenon DEF Add
<1>3. Bytes(<<>>) = 0
  BY <1>1, Adding!LoopStarts, Zenon
<1> QED BY <1>2, <1>3

\* ... and is a number.
LEMMA BytesNumber == \A s \in Strings : Bytes(s) \in Nat
<1>1. \A s : Bytes(s) = Adding!Loop(0, 0, s)
  BY Zenon DEF Bytes, Run, Adding!Loop, Add
<1>2. \A n \in Nat : \A c \in Symbols : Add(0, n, c) \in Nat
  BY WidthAssumption DEF Add
<1>3. \A s \in Strings : Adding!Loop(0, 0, s) \in Nat
  BY <1>2, Adding!LoopStays DEF Strings
<1> QED BY <1>1, <1>3, Zenon

\* What is left is made of what is put in and of what is not taken out.
LEMMA ReplaceLeaves ==
  ASSUME NEW T, NEW U, NEW old, NEW new \in Seq(U), T \ {old} \subseteq U
  PROVE  \A s \in Seq(T) : Replace(s, old, new) \in Seq(U)
<1> DEFINE p == <<old, new>>
<1>1. \A s : Replace(s, old, new) = Replacing!Loop(p, <<>>, s)
  <2>1. p[1] = old /\ p[2] = new
    OBVIOUS
  <2> HIDE DEF p
  <2> QED BY <2>1, Zenon DEF Replace, Run, Replacing!Loop, Substitute
<1>2. \A out \in Seq(U) : \A c \in T : Substitute(p, out, c) \in Seq(U)
  BY DEF Substitute
<1>3. <<>> \in Seq(U)
  OBVIOUS
<1> HIDE DEF p
<1>4. \A s \in Seq(T) : Replacing!Loop(p, <<>>, s) \in Seq(U)
  BY <1>2, <1>3, Replacing!LoopStays
<1> QED BY <1>1, <1>4, Zenon

\* Replace goes symbol by symbol.
LEMMA ReplaceFollows ==
  ASSUME NEW old \in Symbols, NEW new \in Strings
  PROVE  /\ Replace(<<>>, old, new) = <<>>
         /\ \A s \in Strings : Replace(s, old, new) \in Strings
         /\ \A s \in Strings : Replace(Append(s, old), old, new) = Replace(s, old, new) \o new
         /\ \A s \in Strings : \A c \in Symbols \ {old} :
              Replace(Append(s, c), old, new) = Append(Replace(s, old, new), c)
<1> DEFINE p == <<old, new>>
<1>1. p[1] = old /\ p[2] = new
  OBVIOUS
<1> HIDE DEF p
<1>2. \A s : Replace(s, old, new) = Replacing!Loop(p, <<>>, s)
  BY <1>1, Zenon DEF Replace, Run, Replacing!Loop, Substitute
<1>3. Replace(<<>>, old, new) = <<>>
  BY <1>2, Replacing!LoopStarts, Zenon
<1>4. ASSUME NEW s \in Strings
      PROVE  Replace(s, old, new) \in Strings
  <2>1. \A t \in Seq(Symbols) : Replace(t, old, new) \in Seq(Symbols)
    <3>1. new \in Seq(Symbols) /\ Symbols \ {old} \subseteq Symbols
      BY DEF Strings
    <3> QED BY <3>1, ReplaceLeaves
  <2> QED BY <2>1, Zenon DEF Strings
<1>5. ASSUME NEW s \in Strings, NEW c \in Symbols
      PROVE  Replace(Append(s, c), old, new) = Substitute(p, Replace(s, old, new), c)
  <2>1. Replacing!Loop(p, <<>>, Append(s, c)) = Substitute(p, Replacing!Loop(p, <<>>, s), c)
    BY Replacing!LoopUnrolls DEF Strings
  <2> QED BY <1>2, <2>1, Zenon
<1>6. ASSUME NEW s \in Strings
      PROVE  /\ Replace(Append(s, old), old, new) = Replace(s, old, new) \o new
             /\ \A c \in Symbols \ {old} :
                  Replace(Append(s, c), old, new) = Append(Replace(s, old, new), c)
  <2> DEFINE r == Replace(s, old, new)
  <2>1. r \in Seq(Symbols)
    BY <1>4 DEF Strings
  <2>2. \A c \in Symbols : Replace(Append(s, c), old, new) = Substitute(p, r, c)
    BY <1>5
  <2> HIDE DEF r
  <2>3. Substitute(p, r, old) = r \o new
    BY <1>1 DEF Substitute
  <2>4. \A c \in Symbols \ {old} : Substitute(p, r, c) = Append(r, c)
    BY <1>1, <2>1 DEF Substitute
  <2> QED BY <2>2, <2>3, <2>4 DEF r
<1> QED BY <1>3, <1>4, <1>6

\* SplitAt puts each symbol at the end of the last part.
LEMMA SplitFollows ==
  ASSUME NEW at
  PROVE  /\ SplitAt(<<>>, at) = << <<>> >>
         /\ \A s \in Strings : \A c \in Symbols :
              SplitAt(Append(s, c), at) = Cut(at, SplitAt(s, at), c)
<1>1. \A s : SplitAt(s, at) = Splitting!Loop(at, << <<>> >>, s)
  BY Zenon DEF SplitAt, Run, Splitting!Loop, Cut
<1>2. ASSUME NEW s \in Strings, NEW c \in Symbols
      PROVE  SplitAt(Append(s, c), at) = Cut(at, SplitAt(s, at), c)
  <2>1. Splitting!Loop(at, << <<>> >>, Append(s, c))
          = Cut(at, Splitting!Loop(at, << <<>> >>, s), c)
    BY Splitting!LoopUnrolls DEF Strings
  <2> QED BY <1>1, <2>1, Zenon
<1>3. SplitAt(<<>>, at) = << <<>> >>
  BY <1>1, Splitting!LoopStarts, Zenon
<1> QED BY <1>2, <1>3, Zenon

\* LineTexts split into texts, one of them at least.
LEMMA SplitTexts ==
  ASSUME NEW at, NEW T
  PROVE  \A s \in Seq(T) : SplitAt(s, at) \in Seq(Seq(T)) \ {<<>>}
<1>1. \A s : SplitAt(s, at) = Splitting!Loop(at, << <<>> >>, s)
  BY Zenon DEF SplitAt, Run, Splitting!Loop, Cut
<1>2. ASSUME NEW parts \in Seq(Seq(T)) \ {<<>>}, NEW c \in T
      PROVE  Cut(at, parts, c) \in Seq(Seq(T)) \ {<<>>}
  <2>1. CASE c = at
    BY <2>1 DEF Cut
  <2>2. CASE c # at
    <3>1. Len(parts) \in DOMAIN parts /\ parts[Len(parts)] \in Seq(T)
      OBVIOUS
    <3>2. Append(parts[Len(parts)], c) \in Seq(T)
      BY <3>1
    <3> QED BY <2>2, <3>1, <3>2 DEF Cut
  <2> QED BY <2>1, <2>2
<1>3. << <<>> >> \in Seq(Seq(T)) \ {<<>>}
  OBVIOUS
<1>4. \A s \in Seq(T) : Splitting!Loop(at, << <<>> >>, s) \in Seq(Seq(T)) \ {<<>>}
  BY <1>2, <1>3, Splitting!LoopStays
<1> QED BY <1>1, <1>4, Zenon

Unbroken == Symbols \ {"CR", "LF"}


\* The lines of a text, as LinesFit reads it, fit, and the last one has so
\* much room left.
LinesOf(text) == SplitAt(Plain(text), "LF")
Fits(text, room) ==
  /\ \A i \in DOMAIN LinesOf(text) : Bytes(LinesOf(text)[i]) <= FoldWidth
  /\ Bytes(LinesOf(text)[Len(LinesOf(text))]) + room <= FoldWidth

\* A symbol is added to the last line, or starts a line, or is dropped.
LEMMA LinesFollow ==
  /\ LinesOf(<<>>) = << <<>> >>
  /\ \A s \in Strings : LinesOf(s) \in Seq(Strings) \ {<<>>}
  /\ \A s \in Strings : LinesOf(Append(s, "CR")) = LinesOf(s)
  /\ \A s \in Strings : LinesOf(Append(s, "LF")) = Append(LinesOf(s), <<>>)
  /\ \A s \in Strings : \A c \in Unbroken :
       LinesOf(Append(s, c)) = [LinesOf(s) EXCEPT ![Len(LinesOf(s))] = Append(@, c)]
<1> "CR" \in Symbols /\ "LF" \in Symbols
  BY SymbolsAssumption
<1> <<>> \in Strings
  BY DEF Strings
<1>1. \A s \in Strings : Plain(s) \in Strings
  BY ReplaceFollows DEF Plain
<1>2. LinesOf(<<>>) = << <<>> >>
  BY ReplaceFollows, SplitFollows DEF LinesOf, Plain
<1>3. \A s \in Strings : LinesOf(s) \in Seq(Strings) \ {<<>>}
  BY <1>1, SplitTexts DEF LinesOf, Strings
<1>4. \A s \in Strings :
        /\ Plain(Append(s, "CR")) = Plain(s)
        /\ \A c \in Symbols : c # "CR" => Plain(Append(s, c)) = Append(Plain(s), c)
  <2> TAKE s \in Strings
  <2>1. Plain(Append(s, "CR")) = Plain(s) \o <<>> /\ Plain(s) \in Seq(Symbols)
    <3>1. Plain(s) \in Strings
      BY <1>1
    <3>2. Plain(Append(s, "CR")) = Plain(s) \o <<>>
      BY ReplaceFollows DEF Plain
    <3> QED BY <3>1, <3>2 DEF Strings
  <2>2. Plain(Append(s, "CR")) = Plain(s)
    BY <2>1, ConcatEmptySeq
  <2>3. \A c \in Symbols : c # "CR" => Plain(Append(s, c)) = Append(Plain(s), c)
    BY ReplaceFollows DEF Plain
  <2> QED BY <2>2, <2>3
<1>5. ASSUME NEW s \in Strings
      PROVE  /\ LinesOf(Append(s, "CR")) = LinesOf(s)
             /\ LinesOf(Append(s, "LF")) = Append(LinesOf(s), <<>>)
             /\ \A c \in Unbroken :
                  LinesOf(Append(s, c)) = [LinesOf(s) EXCEPT ![Len(LinesOf(s))] = Append(@, c)]
  <2>1. LinesOf(Append(s, "CR")) = LinesOf(s)
    BY <1>4 DEF LinesOf
  <2>2. \A c \in Symbols : c # "CR" =>
           LinesOf(Append(s, c)) = Cut("LF", LinesOf(s), c)
    <3>1. \A c \in Symbols : SplitAt(Append(Plain(s), c), "LF")
               = Cut("LF", SplitAt(Plain(s), "LF"), c)
      BY <1>1, SplitFollows
    <3> QED BY <1>4, <3>1 DEF LinesOf
  <2>3. LinesOf(Append(s, "LF")) = Append(LinesOf(s), <<>>)
    BY <2>2 DEF Cut
  <2>4. \A c \in Unbroken :
           LinesOf(Append(s, c)) = [LinesOf(s) EXCEPT ![Len(LinesOf(s))] = Append(@, c)]
    BY <2>2 DEF Cut, Unbroken
  <2> QED BY <2>1, <2>3, <2>4
<1> QED BY <1>2, <1>3, <1>5

\* A line break makes room, and a symbol takes some.
LEMMA StillFits ==
  ASSUME NEW s \in Strings, NEW room \in 0..FoldWidth, Fits(s, room)
  PROVE  /\ Fits(Append(s, "CR"), room)
         /\ Fits(Append(s, "LF"), FoldWidth)
         /\ \A c \in Unbroken : Width(c) <= room => Fits(Append(s, c), room - Width(c))
<1> DEFINE L == LinesOf(s)
<1>1. L \in Seq(Strings) /\ Len(L) \in DOMAIN L /\ Len(L) \in Nat
  <2>1. L \in Seq(Strings) \ {<<>>}
    BY LinesFollow
  <2> HIDE DEF L
  <2> QED BY <2>1
<1>2. /\ \A i \in DOMAIN L : Bytes(L[i]) <= FoldWidth
      /\ Bytes(L[Len(L)]) + room <= FoldWidth
  BY DEF Fits
<1>3. Fits(Append(s, "CR"), room)
  BY LinesFollow DEF Fits
<1>4. Fits(Append(s, "LF"), FoldWidth)
  <2> DEFINE M == Append(L, <<>>)
  <2>1. LinesOf(Append(s, "LF")) = M
    BY LinesFollow
  <2>2. <<>> \in Strings
    BY DEF Strings
  <2>3. M \in Seq(Strings) /\ DOMAIN M = 1..(Len(L) + 1) /\ Len(M) = Len(L) + 1
        /\ M[Len(L) + 1] = <<>> /\ \A i \in DOMAIN L : M[i] = L[i]
    <3> HIDE DEF L
    <3> QED BY <1>1, <2>2
  <2> HIDE DEF L, M
  <2>4. \A i \in DOMAIN M : Bytes(M[i]) <= FoldWidth
    BY <1>1, <1>2, <2>3, BytesCount, WidthAssumption
  <2>5. Bytes(M[Len(M)]) + FoldWidth <= FoldWidth
    BY <2>3, BytesCount, WidthAssumption
  <2> QED BY <2>1, <2>4, <2>5 DEF Fits
<1>5. ASSUME NEW c \in Unbroken, Width(c) <= room
      PROVE  Fits(Append(s, c), room - Width(c))
  <2> DEFINE M == [L EXCEPT ![Len(L)] = Append(@, c)]
  <2>1. LinesOf(Append(s, c)) = M
    BY LinesFollow
  <2>2. c \in Symbols /\ L[Len(L)] \in Strings
    BY <1>1 DEF Unbroken
  <2>3. /\ DOMAIN M = DOMAIN L /\ Len(M) = Len(L) /\ M[Len(L)] = Append(L[Len(L)], c)
        /\ \A i \in DOMAIN L : i # Len(L) => M[i] = L[i]
    <3> HIDE DEF L
    <3> QED BY <1>1
  <2> HIDE DEF L, M
  <2>4. Bytes(M[Len(L)]) = Bytes(L[Len(L)]) + Width(c) /\ Bytes(L[Len(L)]) \in Nat
    BY <2>2, <2>3, BytesCount, BytesNumber
  <2>5. Width(c) \in Nat /\ FoldWidth \in Nat
    BY <2>2, WidthAssumption
  <2>6. Bytes(M[Len(L)]) + (room - Width(c)) <= FoldWidth
    BY <1>2, <2>4, <2>5
  <2>7. Bytes(M[Len(L)]) <= FoldWidth
    BY <1>5, <2>4, <2>5, <2>6
  <2>8. \A i \in DOMAIN M : Bytes(M[i]) <= FoldWidth
    BY <1>2, <2>3, <2>7
  <2> QED BY <2>1, <2>3, <2>6, <2>8 DEF Fits
<1> QED BY <1>3, <1>4, <1>5

\* Symbols at the end of a text, one by one.
LEMMA AppendTwo ==
  ASSUME NEW T, NEW s \in Seq(T), NEW a \in T, NEW b \in T
  PROVE  s \o <<a, b>> = Append(Append(s, a), b)
OBVIOUS

\* Four elements are appended one by one.
LEMMA AppendFour ==
  ASSUME NEW T, NEW s \in Seq(T), NEW a \in T, NEW b \in T, NEW c \in T, NEW d \in T
  PROVE  s \o <<a, b, c, d>> = Append(Append(Append(Append(s, a), b), c), d)
<1> DEFINE t == s \o <<a, b>>
<1>1. s \o <<a, b, c, d>> = t \o <<c, d>>
  <2>1. <<a, b, c, d>> = <<a, b>> \o <<c, d>>
    OBVIOUS
  <2>2. <<a, b>> \in Seq(T) /\ <<c, d>> \in Seq(T)
    OBVIOUS
  <2> QED BY <2>1, <2>2, ConcatAssociative
<1>2. t = Append(Append(s, a), b) /\ t \in Seq(T)
  BY AppendTwo
<1> HIDE DEF t
<1>3. t \o <<c, d>> = Append(Append(t, c), d)
  BY <1>2, AppendTwo
<1> QED BY <1>1, <1>2, <1>3

\* Folding a symbol into a text that fits leaves one that fits.
LEMMA FoldOnFits ==
  ASSUME NEW out \in Strings, NEW text \in Strings, NEW room \in 0..FoldWidth,
         Fits(out \o text, room), NEW c \in Unbroken
  PROVE  \E more \in Strings, left \in 0..FoldWidth :
           /\ FoldOn(0, [out |-> text, room |-> room], c) = [out |-> more, room |-> left]
           /\ Fits(out \o more, left)
<1> DEFINE acc == [out |-> text, room |-> room]
           t == out \o text
<1>1. acc.out = text /\ acc.room = room
  OBVIOUS
<1>2. c \in Symbols /\ t \in Strings
  BY DEF Unbroken, Strings
<1>3. Width(c) \in Nat /\ Width(c) <= FoldWidth - 1 /\ FoldWidth \in Nat
  BY <1>2, WidthAssumption
<1> HIDE DEF acc, t
<1>4. CASE Width(c) <= room
  <2>1. FoldOn(0, acc, c) = [out |-> Append(text, c), room |-> room - Width(c)]
    BY <1>1, <1>4 DEF FoldOn, Folded
  <2>2. Append(text, c) \in Strings /\ room - Width(c) \in 0..FoldWidth
    BY <1>2, <1>3, <1>4 DEF Strings
  <2>3. out \o Append(text, c) = Append(t, c)
    BY <1>2 DEF Strings, t
  <2>4. Fits(Append(t, c), room - Width(c))
    BY <1>2, <1>4, StillFits DEF t
  <2> QED BY <2>1, <2>2, <2>3, <2>4 DEF acc
<1>5. CASE ~ (Width(c) <= room)
  <2> DEFINE cr == "CR"
             lf == "LF"
             sp == " "
             more == text \o <<cr, lf, sp, c>>
  <2>1. FoldOn(0, acc, c) = [out |-> more, room |-> Room - Width(c)]
    BY <1>1, <1>5 DEF FoldOn, Folded
  <2>2. cr \in Symbols /\ lf \in Symbols /\ sp \in Symbols /\ sp \in Unbroken /\ Width(sp) = 1
    BY SymbolsAssumption DEF Unbroken
  <2>3. Room - Width(c) \in 0..FoldWidth /\ Room - Width(c) = (FoldWidth - 1) - Width(c)
    BY <1>3 DEF Room
  <2> HIDE DEF cr, lf, sp
  <2>4. <<cr, lf, sp, c>> \in Seq(Symbols) /\ more \in Strings
    BY <1>2, <2>2 DEF Strings
  <2>5. out \o more = t \o <<cr, lf, sp, c>>
    BY <2>4, ConcatAssociative DEF Strings, t
  <2> DEFINE t1 == Append(t, cr)
             t2 == Append(t1, lf)
             t3 == Append(t2, sp)
  <2>6. t \o <<cr, lf, sp, c>> = Append(t3, c)
    <3>1. t \in Seq(Symbols)
      BY <1>2 DEF Strings
    <3> QED BY <1>2, <2>2, <3>1, AppendFour
  <2>7. t1 \in Strings /\ t2 \in Strings /\ t3 \in Strings
    BY <1>2, <2>2 DEF Strings
  <2>8. FoldWidth \in 0..FoldWidth /\ FoldWidth - 1 \in 0..FoldWidth
    BY <1>3
  <2> HIDE DEF t1, t2, t3, more
  <2>9. Fits(t1, room)
    BY <1>2, StillFits DEF cr, t, t1
  <2>10. Fits(t2, FoldWidth)
    BY <2>7, <2>9, StillFits DEF lf, t2
  <2>11. Fits(t3, FoldWidth - 1)
    <3>1. Fits(t3, FoldWidth - Width(sp))
      BY <1>3, <2>2, <2>7, <2>8, <2>10, StillFits DEF t3
    <3> QED BY <2>2, <3>1
  <2>12. Fits(Append(t3, c), (FoldWidth - 1) - Width(c))
    BY <1>3, <2>7, <2>8, <2>11, StillFits
  <2>13. Fits(out \o more, Room - Width(c))
    BY <2>3, <2>5, <2>6, <2>12
  <2> QED BY <2>1, <2>3, <2>4, <2>13 DEF acc
<1> QED BY <1>4, <1>5

\* A folded line fits after lines that do, and so does the line break after it.
LEMMA FoldedFits ==
  ASSUME NEW out \in Strings, Fits(out, FoldWidth), NEW line \in Seq(Unbroken)
  PROVE  /\ WriteOn(0, out, line) \in Strings
         /\ Fits(WriteOn(0, out, line), FoldWidth)
<1> DEFINE A == {acc \in [out : Strings, room : 0..FoldWidth] : Fits(out \o acc.out, acc.room)}
           start == [out |-> <<>>, room |-> FoldWidth]
<1>1. \A text \in Strings, room \in 0..FoldWidth :
        Fits(out \o text, room) => [out |-> text, room |-> room] \in A
  OBVIOUS
<1>2. start \in A
  <2>1. <<>> \in Strings /\ out \o <<>> = out /\ FoldWidth \in 0..FoldWidth
    BY WidthAssumption DEF Strings
  <2> HIDE DEF A
  <2> QED BY <1>1, <2>1
<1>3. \A acc \in A : \E text \in Strings, room \in 0..FoldWidth :
        acc = [out |-> text, room |-> room] /\ Fits(out \o text, room)
  OBVIOUS
<1> HIDE DEF A, start
<1>4. ASSUME NEW acc \in A, NEW c \in Unbroken
      PROVE  FoldOn(0, acc, c) \in A
  <2>1. PICK text \in Strings, room \in 0..FoldWidth :
          acc = [out |-> text, room |-> room] /\ Fits(out \o text, room)
    BY <1>3
  <2>2. PICK more \in Strings, left \in 0..FoldWidth :
           /\ FoldOn(0, [out |-> text, room |-> room], c) = [out |-> more, room |-> left]
           /\ Fits(out \o more, left)
    BY <2>1, FoldOnFits
  <2> QED BY <1>1, <2>1, <2>2, Zenon
<1>5. \A s : Fold(s) = Folding!Loop(0, start, s).out
  BY Zenon DEF Fold, Run, Folding!Loop, FoldOn, start
<1>6. Folding!Loop(0, start, line) \in A
  BY <1>2, <1>4, Folding!LoopStays
<1>7. PICK text \in Strings, room \in 0..FoldWidth :
        Fold(line) = text /\ Fits(out \o text, room)
  <2>1. PICK text \in Strings, room \in 0..FoldWidth :
          /\ Folding!Loop(0, start, line) = [out |-> text, room |-> room]
          /\ Fits(out \o text, room)
    BY <1>3, <1>6, Zenon
  <2>2. Fold(line) = text
    BY <1>5, <2>1
  <2> QED BY <2>1, <2>2
<1> DEFINE t == out \o text
           cr == "CR"
           lf == "LF"
<1>8. cr \in Symbols /\ lf \in Symbols
  BY SymbolsAssumption
<1> HIDE DEF cr, lf
<1>9. t \in Strings /\ Append(t, cr) \in Strings /\ Append(Append(t, cr), lf) \in Strings
  BY <1>8 DEF Strings
<1>10. WriteOn(0, out, line) = Append(Append(t, cr), lf)
  <2>1. t \in Seq(Symbols)
    BY <1>9 DEF Strings
  <2> HIDE DEF t
  <2>2. t \o <<cr, lf>> = Append(Append(t, cr), lf)
    BY <1>8, <2>1, AppendTwo
  <2> QED BY <1>7, <2>2 DEF WriteOn, t, cr, lf
<1>11. Fits(Append(t, cr), room)
  BY <1>7, <1>9, StillFits DEF cr
<1>12. Fits(Append(Append(t, cr), lf), FoldWidth)
  <2> HIDE DEF t
  <2> QED BY <1>9, <1>11, StillFits DEF lf
<1> QED BY <1>9, <1>10, <1>12
-----------------------------------------------------------------------------
\* The card that is written: no field breaks a line, and every line is folded.

\* No field can break a line.
LEMMA EscapeUnbroken ==
  ASSUME NEW s \in Strings
  PROVE  Escape(s) \in Seq(Unbroken)
<1> DEFINE bs == "\\"
           n == "n"
           cr == "CR"
           lf == "LF"
           semi == ";"
           comma == ","
           slashes == Replace(s, bs, <<bs, bs>>)
           returns == Replace(slashes, cr, <<>>)
           breaks == Replace(returns, lf, <<bs, n>>)
           semis == Replace(breaks, semi, <<bs, semi>>)
<1>1. Escape(s) = Replace(semis, comma, <<bs, comma>>)
  BY Zenon DEF Escape
<1>2. /\ bs \in Symbols /\ n \in Unbroken /\ bs \in Unbroken /\ semi \in Unbroken
      /\ comma \in Unbroken
  BY SymbolsAssumption DEF Unbroken
<1>3. Unbroken = (Symbols \ {cr}) \ {lf}
  BY DEF Unbroken
<1> HIDE DEF bs, n, cr, lf, semi, comma, slashes, returns, breaks, semis
<1>4. slashes \in Seq(Symbols)
  <2>1. s \in Seq(Symbols) /\ <<bs, bs>> \in Seq(Symbols) /\ Symbols \ {bs} \subseteq Symbols
    BY <1>2 DEF Strings
  <2> QED BY <2>1, ReplaceLeaves DEF slashes
<1>5. returns \in Seq(Symbols \ {cr})
  <2>1. <<>> \in Seq(Symbols \ {cr})
    OBVIOUS
  <2> QED BY <1>4, <2>1, ReplaceLeaves DEF returns
<1>6. breaks \in Seq(Unbroken)
  <2>1. <<bs, n>> \in Seq(Unbroken) /\ (Symbols \ {cr}) \ {lf} \subseteq Unbroken
    BY <1>2, <1>3
  <2> QED BY <1>5, <2>1, ReplaceLeaves DEF breaks
<1>7. semis \in Seq(Unbroken)
  <2>1. <<bs, semi>> \in Seq(Unbroken) /\ Unbroken \ {semi} \subseteq Unbroken
    BY <1>2
  <2> QED BY <1>6, <2>1, ReplaceLeaves DEF semis
<1> QED
  <2>1. <<bs, comma>> \in Seq(Unbroken) /\ Unbroken \ {comma} \subseteq Unbroken
    BY <1>2
  <2> QED BY <1>1, <1>7, <2>1, ReplaceLeaves

\* The parts of a card's lines.
Heading(k) ==
  << <<"BEGIN", ":", "VCARD">>, <<"VERSION", ":", "4.0">>,
     Line("UID", Escape(k.uid)), Line("FN", Escape(k.full_name)),
     Line("N", Escape(k.family_name) \o <<";">> \o Escape(k.given_name) \o <<";", ";", ";">>) >>
OneLine(name, value) == IF value = <<>> THEN <<>> ELSE << Line(name, Escape(value)) >>
EachLine(name, values) == [i \in DOMAIN values |-> Line(name, Escape(values[i]))]

\* The lines of a card: its heading, then each field that may be absent or repeated.
LEMMA LinesByPart ==
  ASSUME NEW k
  PROVE  CardLines(k) =
           Heading(k) \o EachLine("EMAIL", k.emails) \o EachLine("TEL", k.phones)
             \o OneLine("ORG", k.organization) \o OneLine("TITLE", k.title)
             \o OneLine("NOTE", k.note) \o << <<"END", ":", "VCARD">> >>
BY Zenon DEF CardLines, Heading, OneLine, EachLine

\* What is written at the start of a line, which is never a blank.
Tags == {"BEGIN", "VERSION", "UID", "FN", "N", "EMAIL", "TEL", "ORG", "TITLE", "NOTE", "END"}

LineTexts == Seq(Unbroken)

\* A raw line that starts with no blank is a line of its own.
OnItsOwn(raw) == raw # <<>> => Head(raw) \notin {" ", "TAB"}
Whole == {line \in LineTexts : OnItsOwn(line)}

\* Two elements in front of a sequence, and what is after them.
LEMMA TwoInFront ==
  ASSUME NEW T, NEW a \in T, NEW b \in T, NEW v \in Seq(T)
  PROVE  /\ <<a, b>> \o v \in Seq(T) /\ Len(<<a, b>> \o v) = Len(v) + 2
         /\ (<<a, b>> \o v)[1] = a /\ (<<a, b>> \o v)[2] = b
         /\ SubSeq(<<a, b>> \o v, 1, 1) = <<a>>
         /\ SubSeq(<<a, b>> \o v, 3, Len(<<a, b>> \o v)) = v
<1> DEFINE two == <<a, b>>
           s == <<a, b>> \o v
<1>1. two \in Seq(T) /\ Len(two) = 2 /\ two[1] = a /\ two[2] = b
  OBVIOUS
<1>2. s = two \o v
  OBVIOUS
<1> HIDE DEF two, s
<1>3. s \in Seq(T) /\ Len(s) = Len(v) + 2 /\ Len(v) \in Nat
  <2>1. Len(v) \in Nat /\ s \in Seq(T)
    BY <1>1, <1>2
  <2>2. Len(s) = Len(two) + Len(v)
    <3>1. two \in Seq(T) /\ v \in Seq(T)
      BY <1>1
    <3>2. Len(two \o v) = Len(two) + Len(v)
      BY <3>1, ConcatProperties
    <3> QED BY <1>2, <3>2
  <2> QED BY <1>1, <2>1, <2>2
<1>4. s[1] = a /\ s[2] = b /\ \A i \in 1..Len(v) : s[i + 2] = v[i]
  <2>1. \A i \in 1..(Len(v) + 2) : s[i] = IF i <= 2 THEN two[i] ELSE v[i - 2]
    BY <1>1, <1>2, <1>3
  <2>2. 1 \in 1..(Len(v) + 2) /\ 2 \in 1..(Len(v) + 2)
    BY <1>3
  <2>3. ASSUME NEW i \in 1..Len(v)
        PROVE  s[i + 2] = v[i]
    <3>1. i + 2 \in 1..(Len(v) + 2) /\ ~ (i + 2 <= 2) /\ (i + 2) - 2 = i
      BY <1>3
    <3> QED BY <2>1, <3>1
  <2> QED BY <1>1, <2>1, <2>2, <2>3
<1>5. SubSeq(s, 1, 1) = <<a>>
  <2> DEFINE u == SubSeq(s, 1, 1)
  <2>1. u \in Seq(T) /\ Len(u) = 1 /\ u[1] = s[1]
    BY <1>3
  <2> HIDE DEF u
  <2>2. <<a>> \in Seq(T) /\ Len(<<a>>) = 1 /\ <<a>>[1] = a
    OBVIOUS
  <2>3. \A i \in 1..1 : u[i] = <<a>>[i]
    BY <1>4, <2>1, <2>2
  <2>4. u = <<a>>
    BY <2>1, <2>2, <2>3
  <2> QED BY <2>4 DEF u
<1>6. SubSeq(s, 3, Len(s)) = v
  <2> DEFINE u == SubSeq(s, 3, Len(s))
  <2>1. u \in Seq(T) /\ Len(u) = Len(v)
    BY <1>3
  <2>2. \A i \in 1..Len(v) : u[i] = s[i + 2]
    BY <1>3
  <2> HIDE DEF u
  <2> QED BY <1>4, <2>1, <2>2 DEF u
<1> QED BY <1>3, <1>4, <1>5, <1>6 DEF s

\* A text of three symbols.
LEMMA ThreeElements ==
  ASSUME NEW a, NEW b, NEW c
  PROVE  <<a, b>> \o <<c>> = <<a, b, c>>
<1> DEFINE T == {a, b, c}
           s == <<a, b>> \o <<c>>
           t == <<a, b, c>>
<1>1. a \in T /\ b \in T /\ c \in T
  OBVIOUS
<1>2. t \in Seq(T) /\ Len(t) = 3 /\ t[1] = a /\ t[2] = b /\ t[3] = c
  OBVIOUS
<1>3. <<a, b>> \in Seq(T) /\ <<c>> \in Seq(T) /\ Len(<<a, b>>) = 2 /\ Len(<<c>>) = 1
      /\ <<a, b>>[1] = a /\ <<a, b>>[2] = b /\ <<c>>[1] = c
  OBVIOUS
<1> DEFINE p == <<a, b>>
           q == <<c>>
<1> HIDE DEF T, t, p, q
<1>4. s = p \o q
  BY DEF p, q
<1> HIDE DEF s
<1>5. /\ p \in Seq(T) /\ q \in Seq(T) /\ Len(p) = 2 /\ Len(q) = 1 /\ p[1] = a /\ p[2] = b
      /\ q[1] = c
  BY <1>3 DEF p, q
<1>6. s \in Seq(T) /\ Len(s) = 3
  BY <1>4, <1>5, ConcatProperties
<1>7. \A i \in 1..3 : s[i] = IF i <= 2 THEN p[i] ELSE q[i - 2]
  <2>1. \A i \in 1 .. Len(p) + Len(q) : (p \o q)[i]
             = IF i <= Len(p) THEN p[i] ELSE q[i - Len(p)]
    BY <1>5, ConcatProperties
  <2>2. Len(p) + Len(q) = 3
    BY <1>5
  <2> QED BY <1>4, <1>5, <2>1, <2>2
<1>8. \A i \in 1..3 : s[i] = t[i]
  <2>1. s[1] = a /\ s[2] = b /\ s[3] = c
    BY <1>5, <1>7
  <2> QED BY <1>2, <2>1
<1>9. s = t
  BY <1>2, <1>6, <1>8, SeqEqual
<1> QED BY <1>9 DEF s, t

\* A property's line does not start like a continuation line.
LEMMA LineWhole ==
  ASSUME NEW tag \in Tags, NEW value \in LineTexts
  PROVE  Line(tag, value) \in Whole
<1> DEFINE colon == ":"
<1>1. colon \in Unbroken /\ tag \in Unbroken /\ tag \notin {" ", "TAB"}
  BY SymbolsAssumption DEF Unbroken, Tags
<1>2. Line(tag, value) = <<tag, colon>> \o value /\ value \in Seq(Unbroken)
  BY DEF Line, LineTexts
<1> HIDE DEF colon
<1> DEFINE line == <<tag, colon>> \o value
<1>3. line \in Seq(Unbroken) /\ Len(line) = Len(value) + 2 /\ line[1] = tag
  <2>1. value \in Seq(Unbroken) /\ tag \in Unbroken /\ colon \in Unbroken
    BY <1>1, <1>2
  <2> QED BY <2>1, TwoInFront
<1>4. Len(value) \in Nat /\ Line(tag, value) = line
  BY <1>2
<1> HIDE DEF line
<1>5. line # <<>> /\ Head(line) = tag
  BY <1>3, <1>4
<1> QED BY <1>1, <1>3, <1>4, <1>5 DEF Whole, OnItsOwn, LineTexts

\* ... nor do those of a single symbol, which are such lines too.
LEMMA ShortLine ==
  ASSUME NEW a, NEW b
  PROVE  <<a, ":", b>> = Line(a, <<b>>)
<1> DEFINE colon == ":"
<1>1. Line(a, <<b>>) = <<a, colon>> \o <<b>>
  BY DEF Line
<1> HIDE DEF colon
<1>2. <<a, colon>> \o <<b>> = <<a, colon, b>>
  BY ThreeElements
<1> QED BY <1>1, <1>2 DEF colon

\* Five elements, appended one by one.
LEMMA FiveElements ==
  ASSUME NEW T, NEW a \in T, NEW b \in T, NEW c \in T, NEW d \in T, NEW e \in T
  PROVE  /\ <<a, b, c, d, e>> \in Seq(T)
         /\ <<a, b, c, d, e>> = Append(Append(Append(Append(Append(<<>>, a), b), c), d), e)
<1>1. <<a, b, c, d, e>> \in Seq(T) /\ <<a>> \in Seq(T) /\ <<b, c, d, e>> \in Seq(T)
  OBVIOUS
<1>2. <<a, b, c, d, e>> = <<a>> \o <<b, c, d, e>>
  BY <1>1
<1>3. <<a>> \o <<b, c, d, e>> = Append(Append(Append(Append(<<a>>, b), c), d), e)
  BY <1>1, AppendFour
<1>4. <<a>> = Append(<<>>, a)
  OBVIOUS
<1> QED BY <1>1, <1>2, <1>3, <1>4

\* What N holds: a field before the first delimiter and one after it.
NameValue(k) ==
  Escape(k.family_name) \o <<";">> \o Escape(k.given_name) \o <<";", ";", ";">>

\* The value of N does not break the line.
LEMMA NameUnbroken ==
  ASSUME NEW k \in ContactInput
  PROVE  NameValue(k) \in LineTexts
<1> DEFINE f == Escape(k.family_name)
           g == Escape(k.given_name)
           semi == ";"
<1>1. semi \in Unbroken
  BY SymbolsAssumption DEF Unbroken
<1>2. f \in Seq(Unbroken) /\ g \in Seq(Unbroken)
  BY EscapeUnbroken DEF ContactInput
<1> HIDE DEF f, g, semi
<1>3. f \o <<semi>> \in Seq(Unbroken) /\ <<semi, semi, semi>> \in Seq(Unbroken)
  BY <1>1, <1>2
<1>4. f \o <<semi>> \o g \in Seq(Unbroken)
  BY <1>2, <1>3
<1>5. f \o <<semi>> \o g \o <<semi, semi, semi>> \in Seq(Unbroken)
  BY <1>3, <1>4
<1> QED BY <1>5 DEF f, g, semi, NameValue, LineTexts

\* No logical line of a card is broken, or would be read as a continuation.
LEMMA CardLinesWhole ==
  ASSUME NEW k \in ContactInput
  PROVE  CardLines(k) \in Seq(Whole)
<1>1. /\ k.uid \in Strings /\ k.full_name \in Strings /\ k.given_name \in Strings
      /\ k.family_name \in Strings /\ k.emails \in Seq(Strings) /\ k.phones \in Seq(Strings)
      /\ k.organization \in Strings /\ k.title \in Strings /\ k.note \in Strings
  BY DEF ContactInput
<1>2. <<"BEGIN", ":", "VCARD">> \in Whole /\ <<"VERSION", ":", "4.0">> \in Whole
      /\ <<"END", ":", "VCARD">> \in Whole
  <2>1. "VCARD" \in Unbroken /\ "4.0" \in Unbroken
    BY SymbolsAssumption DEF Unbroken
  <2>2. <<"VCARD">> \in LineTexts /\ <<"4.0">> \in LineTexts
    BY <2>1 DEF LineTexts
  <2>3. "BEGIN" \in Tags /\ "VERSION" \in Tags /\ "END" \in Tags
    BY DEF Tags
  <2> QED BY <2>2, <2>3, ShortLine, LineWhole
<1>3. ASSUME NEW tag \in Tags, NEW value \in Strings
      PROVE  Line(tag, Escape(value)) \in Whole
  BY EscapeUnbroken, LineWhole DEF LineTexts
<1>4. Heading(k) \in Seq(Whole)
  <2>1. Line("N", NameValue(k)) \in Whole
    BY NameUnbroken, LineWhole DEF Tags
  <2>2. Line("UID", Escape(k.uid)) \in Whole /\ Line("FN", Escape(k.full_name)) \in Whole
    BY <1>1, <1>3 DEF Tags
  <2> QED BY <1>2, <2>1, <2>2, FiveElements, Zenon DEF Heading, NameValue
<1>5. EachLine("EMAIL", k.emails) \in Seq(Whole) /\ EachLine("TEL", k.phones) \in Seq(Whole)
  <2>1. ASSUME NEW tag \in Tags, NEW values \in Seq(Strings)
        PROVE  EachLine(tag, values) \in Seq(Whole)
    <3>1. \A i \in 1..Len(values) : Line(tag, Escape(values[i])) \in Whole
      BY <1>3
    <3>2. DOMAIN values = 1..Len(values) /\ Len(values) \in Nat
      OBVIOUS
    <3> QED BY <3>1, <3>2 DEF EachLine
  <2> QED BY <1>1, <2>1 DEF Tags
<1>6. OneLine("ORG", k.organization) \in Seq(Whole) /\ OneLine("TITLE", k.title) \in Seq(Whole)
      /\ OneLine("NOTE", k.note) \in Seq(Whole)
  <2>1. ASSUME NEW tag \in Tags, NEW value \in Strings
        PROVE  OneLine(tag, value) \in Seq(Whole)
    BY <1>3 DEF OneLine
  <2> QED BY <1>1, <2>1 DEF Tags
<1>7. << <<"END", ":", "VCARD">> >> \in Seq(Whole)
  BY <1>2
<1>8. \A a, b, c, d, e, f, g \in Seq(Whole) : a \o b \o c \o d \o e \o f \o g \in Seq(Whole)
  <2>1. \A a, b \in Seq(Whole) : a \o b \in Seq(Whole)
    OBVIOUS
  <2> QED BY <2>1, Zenon
<1> QED BY <1>4, <1>5, <1>6, <1>7, <1>8, LinesByPart, Zenon

\* Nothing fits, with a whole line of room left.
LEMMA EmptyFits == Fits(<<>>, FoldWidth)
<1>1. LinesOf(<<>>) = << <<>> >> /\ Bytes(<<>>) = 0 /\ FoldWidth \in Nat
  BY LinesFollow, BytesCount, WidthAssumption
<1> QED BY <1>1 DEF Fits

\* A card's lines fit, whatever they are.
LEMMA CardFits ==
  ASSUME NEW k \in ContactInput, NEW card \in BuildVcard(k)
  PROVE  card \in Strings /\ Fits(card, FoldWidth)
<1> DEFINE A == {t \in Strings : Fits(t, FoldWidth)}
           lines == CardLines(k)
<1>1. <<>> \in A
  <2>1. <<>> \in Strings
    BY DEF Strings
  <2> QED BY <2>1, EmptyFits
<1>2. \A out \in A : \A line \in Whole : WriteOn(0, out, line) \in A
  BY FoldedFits DEF Whole, LineTexts
<1>3. lines \in Seq(Whole)
  BY CardLinesWhole
<1> HIDE DEF A, lines
<1>4. Writing!Loop(0, <<>>, lines) \in A
  BY <1>1, <1>2, <1>3, Writing!LoopStays
<1>5. BuildVcard(k) \subseteq {Writing!Loop(0, <<>>, lines)}
  <2>1. Writing!Loop(0, <<>>, lines)
          = Run(LAMBDA out, line : out \o Fold(line) \o <<"CR", "LF">>, <<>>, lines)
    BY Zenon DEF Run, Writing!Loop, WriteOn
  <2> QED BY <2>1, Zenon DEF BuildVcard, lines
<1> QED BY <1>4, <1>5 DEF A
-----------------------------------------------------------------------------
\* unescape_vcard_text takes back what escape_vcard_text did, except for the
\* carriage returns it drops: symbol by symbol, ...

\* Two symbols at the end of a text.
Two(s, a, b) == Append(Append(s, a), b)

\* A symbol taken for two.
Escaped(text, old, b) == Replace(text, old, <<"\\", b>>)

\* An escape goes symbol by symbol, ...
LEMMA EscapedFollows ==
  ASSUME NEW old \in Symbols, NEW b \in Symbols
  PROVE  /\ Escaped(<<>>, old, b) = <<>>
         /\ \A s \in Strings :
              /\ Escaped(s, old, b) \in Strings
              /\ Escaped(Append(s, old), old, b) = Two(Escaped(s, old, b), "\\", b)
              /\ \A c \in Symbols : c # old =>
                   Escaped(Append(s, c), old, b) = Append(Escaped(s, old, b), c)
<1> DEFINE bs == "\\"
           new == <<bs, b>>
<1>1. bs \in Symbols
  BY SymbolsAssumption
<1> HIDE DEF bs
<1>2. new \in Strings
  BY <1>1 DEF Strings
<1>3. \A t \in Strings : t \o new = Two(t, bs, b)
  BY <1>1, AppendTwo DEF Strings, Two
<1> HIDE DEF new
<1>4. \A s : Escaped(s, old, b) = Replace(s, old, new)
  BY Zenon DEF Escaped, new, bs
<1>5. /\ Replace(<<>>, old, new) = <<>>
      /\ \A s \in Strings : Replace(s, old, new) \in Strings
      /\ \A s \in Strings : Replace(Append(s, old), old, new) = Replace(s, old, new) \o new
      /\ \A s \in Strings : \A c \in Symbols \ {old} :
           Replace(Append(s, c), old, new) = Append(Replace(s, old, new), c)
  BY <1>2, ReplaceFollows
<1>6. ASSUME NEW s \in Strings
      PROVE  /\ Escaped(s, old, b) \in Strings
             /\ Escaped(Append(s, old), old, b) = Two(Escaped(s, old, b), bs, b)
             /\ \A c \in Symbols : c # old =>
                  Escaped(Append(s, c), old, b) = Append(Escaped(s, old, b), c)
  BY <1>3, <1>4, <1>5
<1>7. Escaped(<<>>, old, b) = <<>>
  BY <1>4, <1>5
<1> QED BY <1>6, <1>7 DEF bs

\* ... and leaves any two others alone.
LEMMA EscapedKeepsTwo ==
  ASSUME NEW old \in Symbols, NEW b \in Symbols, NEW s \in Strings,
         NEW c \in Symbols, NEW d \in Symbols, c # old, d # old
  PROVE  Escaped(Two(s, c, d), old, b) = Two(Escaped(s, old, b), c, d)
<1> DEFINE t == Append(s, c)
<1>1. t \in Strings
  BY DEF Strings
<1>2. Escaped(t, old, b) = Append(Escaped(s, old, b), c)
  BY EscapedFollows
<1> HIDE DEF t
<1>3. Escaped(Append(t, d), old, b) = Append(Escaped(t, old, b), d)
  BY <1>1, EscapedFollows
<1> QED BY <1>2, <1>3 DEF t, Two

\* Dropping carriage returns goes symbol by symbol, ...
LEMMA PlainFollows ==
  /\ Plain(<<>>) = <<>>
  /\ \A s \in Strings :
       /\ Plain(s) \in Strings
       /\ Plain(Append(s, "CR")) = Plain(s)
       /\ \A c \in Symbols : c # "CR" => Plain(Append(s, c)) = Append(Plain(s), c)
<1> DEFINE cr == "CR"
<1>1. cr \in Symbols
  BY SymbolsAssumption
<1>2. <<>> \in Strings
  BY DEF Strings
<1> HIDE DEF cr
<1>3. /\ Replace(<<>>, cr, <<>>) = <<>>
      /\ \A s \in Strings : Replace(s, cr, <<>>) \in Strings
      /\ \A s \in Strings : Replace(Append(s, cr), cr, <<>>) = Replace(s, cr, <<>>) \o <<>>
      /\ \A s \in Strings : \A c \in Symbols \ {cr} :
           Replace(Append(s, c), cr, <<>>) = Append(Replace(s, cr, <<>>), c)
  BY <1>1, <1>2, ReplaceFollows
<1>4. \A s : Plain(s) = Replace(s, cr, <<>>)
  BY DEF Plain, cr
<1>5. ASSUME NEW s \in Strings
      PROVE  /\ Plain(s) \in Strings
             /\ Plain(Append(s, cr)) = Plain(s)
             /\ \A c \in Symbols : c # cr => Plain(Append(s, c)) = Append(Plain(s), c)
  <2>1. Plain(s) \in Seq(Symbols)
    BY <1>3, <1>4 DEF Strings
  <2>2. Plain(s) \o <<>> = Plain(s)
    BY <2>1, ConcatEmptySeq
  <2> QED BY <1>3, <1>4, <2>1, <2>2 DEF Strings
<1>6. Plain(<<>>) = <<>>
  BY <1>3, <1>4
<1> QED BY <1>5, <1>6 DEF cr

\* ... and leaves any two others alone.
LEMMA PlainKeepsTwo ==
  ASSUME NEW s \in Strings, NEW c \in Symbols, NEW d \in Symbols, c # "CR", d # "CR"
  PROVE  Plain(Two(s, c, d)) = Two(Plain(s), c, d)
<1> DEFINE t == Append(s, c)
<1>1. t \in Strings
  BY DEF Strings
<1>2. Plain(t) = Append(Plain(s), c)
  BY PlainFollows
<1> HIDE DEF t
<1>3. Plain(Append(t, d)) = Append(Plain(t), d)
  BY <1>1, PlainFollows
<1> QED BY <1>2, <1>3 DEF t, Two

Special == {"\\", "CR", "LF", ";", ","}

\* Escape goes symbol by symbol: five of them are special.
LEMMA EscapeFollows ==
  /\ Escape(<<>>) = <<>>
  /\ \A s \in Strings :
       /\ Escape(s) \in Strings
       /\ Escape(Append(s, "CR")) = Escape(s)
       /\ Escape(Append(s, "LF")) = Two(Escape(s), "\\", "n")
       /\ \A c \in {"\\", ";", ","} : Escape(Append(s, c)) = Two(Escape(s), "\\", c)
       /\ \A c \in Symbols \ Special : Escape(Append(s, c)) = Append(Escape(s), c)
<1> DEFINE bs == "\\"
           n == "n"
           cr == "CR"
           lf == "LF"
           semi == ";"
           comma == ","
<1>1. /\ bs \in Symbols /\ n \in Symbols /\ cr \in Symbols /\ lf \in Symbols
      /\ semi \in Symbols /\ comma \in Symbols
  BY SymbolsAssumption
<1>2. bs # n /\ bs # cr /\ bs # lf /\ bs # semi /\ bs # comma /\ n # cr /\ n # lf /\ n # semi
      /\ n # comma /\ cr # lf /\ cr # semi /\ cr # comma /\ lf # semi /\ lf # comma
      /\ semi # comma
  OBVIOUS
<1>3. Special = {bs, cr, lf, semi, comma}
  BY DEF Special
<1>4. \A s : Escape(s) =
        Escaped(Escaped(Escaped(Plain(Escaped(s, bs, bs)), lf, n), semi, semi), comma, comma)
  BY Zenon DEF Escape, Escaped, Plain
<1>5. /\ Plain(<<>>) = <<>>
      /\ \A s \in Strings :
           /\ Plain(s) \in Strings
           /\ Plain(Append(s, cr)) = Plain(s)
           /\ \A c \in Symbols : c # cr => Plain(Append(s, c)) = Append(Plain(s), c)
  BY PlainFollows
<1>6. \A s \in Strings : Plain(Two(s, bs, bs)) = Two(Plain(s), bs, bs)
  BY <1>1, <1>2, PlainKeepsTwo DEF cr
<1>7. \A old, b \in Symbols :
        /\ Escaped(<<>>, old, b) = <<>>
        /\ \A s \in Strings :
             /\ Escaped(s, old, b) \in Strings
             /\ Escaped(Append(s, old), old, b) = Two(Escaped(s, old, b), bs, b)
             /\ \A c \in Symbols : c # old =>
                  Escaped(Append(s, c), old, b) = Append(Escaped(s, old, b), c)
  BY EscapedFollows
<1> HIDE DEF bs, n, cr, lf, semi, comma
<1>8. Escape(<<>>) = <<>>
  BY <1>1, <1>4, <1>5, <1>7
<1>9. ASSUME NEW s \in Strings
      PROVE  /\ Escape(s) \in Strings
             /\ Escape(Append(s, cr)) = Escape(s)
             /\ Escape(Append(s, lf)) = Two(Escape(s), bs, n)
             /\ \A c \in {bs, semi, comma} : Escape(Append(s, c)) = Two(Escape(s), bs, c)
             /\ \A c \in Symbols \ Special : Escape(Append(s, c)) = Append(Escape(s), c)
  <2> DEFINE s1 == Escaped(s, bs, bs)
             s2 == Plain(s1)
             s3 == Escaped(s2, lf, n)
             s4 == Escaped(s3, semi, semi)
             s5 == Escaped(s4, comma, comma)
  <2>1. s1 \in Strings
    BY <1>1, <1>7
  <2>2. s2 \in Strings
    BY <2>1, <1>5
  <2>3. s3 \in Strings
    BY <1>1, <1>7, <2>2
  <2>4. s4 \in Strings
    BY <1>1, <1>7, <2>3
  <2>5. s5 \in Strings /\ Escape(s) = s5
    BY <1>1, <1>4, <1>7, <2>4
  <2> HIDE DEF s1, s2, s3, s4, s5
  <2>6. Escaped(Append(s, bs), bs, bs) = Two(s1, bs, bs)
    BY <1>1, <1>7 DEF s1
  <2>7. \A c \in Symbols : c # bs => Escaped(Append(s, c), bs, bs) = Append(s1, c)
    BY <1>1, <1>7 DEF s1
  <2>8. Plain(Append(s1, cr)) = s2
    BY <1>5, <2>1 DEF s2
  <2>9. Plain(Two(s1, bs, bs)) = Two(s2, bs, bs)
    BY <1>6, <2>1 DEF s2
  <2>10. \A c \in Symbols : c # cr => Plain(Append(s1, c)) = Append(s2, c)
    BY <1>5, <2>1 DEF s2
  <2>11. Escaped(Append(s2, lf), lf, n) = Two(s3, bs, n)
    BY <1>1, <1>7, <2>2 DEF s3
  <2>12. \A c \in Symbols : c # lf => Escaped(Append(s2, c), lf, n) = Append(s3, c)
    BY <1>1, <1>7, <2>2 DEF s3
  <2>13. Escaped(Two(s2, bs, bs), lf, n) = Two(s3, bs, bs)
    BY <1>1, <1>2, <2>2, EscapedKeepsTwo DEF s3
  <2>14. Escaped(Append(s3, semi), semi, semi) = Two(s4, bs, semi)
    BY <1>1, <1>7, <2>3 DEF s4
  <2>15. \A c \in Symbols : c # semi => Escaped(Append(s3, c), semi, semi) = Append(s4, c)
    BY <1>1, <1>7, <2>3 DEF s4
  <2>16. Escaped(Two(s3, bs, bs), semi, semi) = Two(s4, bs, bs)
    BY <1>1, <1>2, <2>3, EscapedKeepsTwo DEF s4
  <2>17. Escaped(Two(s3, bs, n), semi, semi) = Two(s4, bs, n)
    BY <1>1, <1>2, <2>3, EscapedKeepsTwo DEF s4
  <2>18. Escaped(Append(s4, comma), comma, comma) = Two(s5, bs, comma)
    BY <1>1, <1>7, <2>4 DEF s5
  <2>19. \A c \in Symbols : c # comma => Escaped(Append(s4, c), comma, comma) = Append(s5, c)
    BY <1>1, <1>7, <2>4 DEF s5
  <2>20. Escaped(Two(s4, bs, bs), comma, comma) = Two(s5, bs, bs)
    BY <1>1, <1>2, <2>4, EscapedKeepsTwo DEF s5
  <2>21. Escaped(Two(s4, bs, n), comma, comma) = Two(s5, bs, n)
    BY <1>1, <1>2, <2>4, EscapedKeepsTwo DEF s5
  <2>22. Escaped(Two(s4, bs, semi), comma, comma) = Two(s5, bs, semi)
    BY <1>1, <1>2, <2>4, EscapedKeepsTwo DEF s5
  <2>23. Escape(Append(s, cr)) = s5
    <3>1. Escaped(Append(s, cr), bs, bs) = Append(s1, cr)
      BY <1>1, <1>2, <2>7
    <3> QED BY <1>4, <2>8, <3>1 DEF s3, s4, s5
  <2>24. Escape(Append(s, lf)) = Two(s5, bs, n)
    <3>1. /\ Escaped(Append(s, lf), bs, bs) = Append(s1, lf)
          /\ Plain(Append(s1, lf)) = Append(s2, lf)
      BY <1>1, <1>2, <2>7, <2>10
    <3> QED BY <1>4, <2>11, <2>17, <2>21, <3>1
  <2>25. Escape(Append(s, bs)) = Two(s5, bs, bs)
    BY <1>4, <2>6, <2>9, <2>13, <2>16, <2>20
  <2>26. Escape(Append(s, semi)) = Two(s5, bs, semi)
    <3>1. /\ Escaped(Append(s, semi), bs, bs) = Append(s1, semi)
          /\ Plain(Append(s1, semi)) = Append(s2, semi)
          /\ Escaped(Append(s2, semi), lf, n) = Append(s3, semi)
      BY <1>1, <1>2, <2>7, <2>10, <2>12
    <3> QED BY <1>4, <2>14, <2>22, <3>1
  <2>27. Escape(Append(s, comma)) = Two(s5, bs, comma)
    <3>1. /\ Escaped(Append(s, comma), bs, bs) = Append(s1, comma)
          /\ Plain(Append(s1, comma)) = Append(s2, comma)
          /\ Escaped(Append(s2, comma), lf, n) = Append(s3, comma)
          /\ Escaped(Append(s3, comma), semi, semi) = Append(s4, comma)
      BY <1>1, <1>2, <2>7, <2>10, <2>12, <2>15
    <3> QED BY <1>4, <2>18, <3>1
  <2>28. ASSUME NEW c \in Symbols \ Special
         PROVE  Escape(Append(s, c)) = Append(s5, c)
    <3>1. c \in Symbols /\ c # bs /\ c # cr /\ c # lf /\ c # semi /\ c # comma
      BY <1>3
    <3>2. /\ Escaped(Append(s, c), bs, bs) = Append(s1, c)
          /\ Plain(Append(s1, c)) = Append(s2, c)
          /\ Escaped(Append(s2, c), lf, n) = Append(s3, c)
          /\ Escaped(Append(s3, c), semi, semi) = Append(s4, c)
          /\ Escaped(Append(s4, c), comma, comma) = Append(s5, c)
      BY <2>7, <2>10, <2>12, <2>15, <2>19, <3>1
    <3> QED BY <1>4, <3>2
  <2> QED BY <2>5, <2>23, <2>24, <2>25, <2>26, <2>27, <2>28
<1> QED BY <1>8, <1>9 DEF bs, n, cr, lf, semi, comma
-----------------------------------------------------------------------------
\* ... and so for a whole text.

UnescapeOn(p, acc, c) == Unescaped(acc, c)
Unescaping == INSTANCE Loops WITH Step <- UnescapeOn

\* Out of a loop of unescape_vcard_text, with no backslash pending.
Done(out) == [slash |-> FALSE, out |-> out]

\* unescape_vcard_text: a symbol that is not escaped, and one that is.
LEMMA UnescapedFollows ==
  ASSUME NEW out \in Strings, NEW c \in Symbols
  PROVE  /\ c # "\\" => Unescaped(Done(out), c) = Done(Append(out, c))
         /\ Unescaped(Unescaped(Done(out), "\\"), c)
              = Done(Append(out, IF c \in {"n", "N"} THEN "LF" ELSE c))
<1> DEFINE pending == [slash |-> TRUE, out |-> out]
<1>1. c # "\\" => Unescaped(Done(out), c) = Done(Append(out, c))
  BY DEF Unescaped, Done
<1>2. Unescaped(Done(out), "\\") = pending
  BY DEF Unescaped, Done
<1>3. Unescaped(pending, c) = Done(Append(out, IF c \in {"n", "N"} THEN "LF" ELSE c))
  BY DEF Unescaped, Done
<1> QED BY <1>1, <1>2, <1>3

\* Unescaping undoes escaping, but for the carriage returns that are dropped.
LEMMA UnescapeEscape ==
  ASSUME NEW text \in Strings
  PROVE  Unescape(Escape(text)) = Plain(text)
<1> DEFINE bs == "\\"
           after(s) == Unescaping!Loop(0, Done(<<>>), s)
           S == {s \in Seq(Symbols) : after(Escape(s)) = Done(Plain(s))}
<1>1. after(<<>>) = Done(<<>>)
  BY Unescaping!LoopStarts
<1>2. \A s \in Strings : \A c \in Symbols : after(Append(s, c)) = Unescaped(after(s), c)
  BY Unescaping!LoopUnrolls DEF Strings, UnescapeOn
<1>3. bs \in Symbols /\ "n" \in Symbols
  BY SymbolsAssumption
<1> HIDE DEF after
<1>4. \A s \in Strings : \A c, d \in Symbols :
        after(Two(s, c, d)) = Unescaped(Unescaped(after(s), c), d)
  <2> TAKE s \in Strings
  <2> TAKE c, d \in Symbols
  <2> DEFINE t == Append(s, c)
  <2>1. t \in Strings
    BY DEF Strings
  <2> HIDE DEF t
  <2>2. after(Append(t, d)) = Unescaped(after(t), d)
    BY <1>2, <2>1
  <2>3. after(t) = Unescaped(after(s), c)
    BY <1>2 DEF t
  <2> QED BY <2>2, <2>3 DEF Two, t
<1>5. <<>> \in S
  <2>1. <<>> \in Seq(Symbols)
    OBVIOUS
  <2>2. after(Escape(<<>>)) = Done(Plain(<<>>))
    BY <1>1, EscapeFollows, PlainFollows
  <2> QED BY <2>1, <2>2
<1>6. ASSUME NEW s \in Seq(Symbols), NEW c \in Symbols, s \in S
      PROVE  Append(s, c) \in S
  <2> DEFINE e == Escape(s)
             p == Plain(s)
  <2>1. s \in Strings /\ e \in Strings /\ p \in Strings
    BY EscapeFollows, PlainFollows DEF Strings
  <2>2. after(e) = Done(p)
    BY <1>6
  <2>3. Append(s, c) \in Seq(Symbols)
    OBVIOUS
  <2>4. CASE c = "CR"
    <3>1. Escape(Append(s, c)) = e /\ Plain(Append(s, c)) = p
      BY <2>1, <2>4, EscapeFollows, PlainFollows
    <3> QED BY <2>2, <2>3, <3>1
  <2> HIDE DEF bs
  <2>5. c # "CR" => Plain(Append(s, c)) = Append(p, c)
    BY <2>1, PlainFollows
  <2>6. CASE c = "LF"
    <3>1. Escape(Append(s, c)) = Two(e, bs, "n")
      BY <2>1, <2>6, EscapeFollows DEF bs
    <3> HIDE DEF e, p
    <3>2. after(Two(e, bs, "n")) = Unescaped(Unescaped(Done(p), bs), "n")
      BY <1>3, <1>4, <2>1, <2>2
    <3>3. Unescaped(Unescaped(Done(p), bs), "n") = Done(Append(p, "LF"))
      BY <1>3, <2>1, UnescapedFollows DEF bs
    <3> QED BY <2>3, <2>5, <2>6, <3>1, <3>2, <3>3
  <2>7. CASE c \in {bs, ";", ","}
    <3>1. Escape(Append(s, c)) = Two(e, bs, c)
      BY <2>1, <2>7, EscapeFollows DEF bs
    <3> HIDE DEF e, p
    <3>2. after(Two(e, bs, c)) = Unescaped(Unescaped(Done(p), bs), c)
      BY <1>3, <1>4, <2>1, <2>2
    <3>3. c # "CR" /\ c \notin {"n", "N"}
      BY <2>7 DEF bs
    <3>4. Unescaped(Unescaped(Done(p), bs), c) = Done(Append(p, c))
      BY <2>1, <3>3, UnescapedFollows DEF bs
    <3> QED BY <2>3, <2>5, <3>1, <3>2, <3>3, <3>4
  <2>8. CASE c \notin Special
    <3>1. Escape(Append(s, c)) = Append(e, c)
      BY <2>1, <2>8, EscapeFollows
    <3> HIDE DEF e, p
    <3>2. after(Append(e, c)) = Unescaped(Done(p), c)
      BY <1>2, <2>1, <2>2
    <3>3. c # "CR" /\ c # "\\"
      BY <2>8 DEF Special
    <3>4. Unescaped(Done(p), c) = Done(Append(p, c))
      BY <2>1, <3>3, UnescapedFollows
    <3> QED BY <2>3, <2>5, <3>1, <3>2, <3>3, <3>4
  <2> QED BY <2>4, <2>6, <2>7, <2>8 DEF Special, bs
<1>7. text \in S
  <2>1. text \in Seq(Symbols)
    BY DEF Strings
  <2> HIDE DEF S
  <2> QED BY <1>5, <1>6, <2>1, Unescaping!AllBuilt
<1>8. after(Escape(text)) = Done(Plain(text))
  BY <1>7
<1>9. \A s : Unescape(s) = IF after(s).slash THEN Append(after(s).out, "\\") ELSE after(s).out
  BY Zenon DEF Unescape, Run, Unescaping!Loop, UnescapeOn, after, Done
<1> QED BY <1>8, <1>9 DEF Done
-----------------------------------------------------------------------------
\* unfold_vcard_lines takes back what fold_vcard_line did.  The raw lines of a
\* card, ...

Newline(p, out, c) ==
  IF c = "LF" /\ out # <<>> /\ Last(out) = "CR" THEN Append(Front(out), "LF")
  ELSE Append(out, c)
UnfoldOn(p, lines, raw) == Unfolded(lines, raw)
Normalizing == INSTANCE Loops WITH Step <- Newline
Unfolding == INSTANCE Loops WITH Step <- UnfoldOn

\* A carriage return goes with the line feed after it.
LEMMA NewlinesFollow ==
  /\ Newlines(<<>>) = <<>>
  /\ \A s \in Strings :
       /\ Newlines(s) \in Strings
       /\ Newlines(Two(s, "CR", "LF")) = Append(Newlines(s), "LF")
       /\ \A c \in Unbroken : Newlines(Append(s, c)) = Append(Newlines(s), c)
<1>1. \A s : Newlines(s) = Normalizing!Loop(0, <<>>, s)
  BY Zenon DEF Newlines, Run, Normalizing!Loop, Newline
<1>2. Newlines(<<>>) = <<>>
  BY <1>1, Normalizing!LoopStarts, Zenon
<1>3. ASSUME NEW s \in Strings, NEW c \in Symbols
      PROVE  Newlines(Append(s, c)) = Newline(0, Newlines(s), c)
  <2>1. Normalizing!Loop(0, <<>>, Append(s, c)) = Newline(0, Normalizing!Loop(0, <<>>, s), c)
    BY Normalizing!LoopUnrolls DEF Strings
  <2> QED BY <1>1, <2>1, Zenon
<1>4. "CR" \in Symbols /\ "LF" \in Symbols
  BY SymbolsAssumption
<1>5. \A s \in Strings : Newlines(s) \in Strings
  <2>1. ASSUME NEW out \in Strings, NEW c \in Symbols
        PROVE  Newline(0, out, c) \in Strings
    <3>1. out # <<>> => Front(out) \in Strings
      BY DEF Front, Strings
    <3> QED BY <1>4, <3>1 DEF Newline, Strings
  <2>2. <<>> \in Strings
    BY DEF Strings
  <2>3. \A s \in Seq(Symbols) : Normalizing!Loop(0, <<>>, s) \in Strings
    BY <2>1, <2>2, Normalizing!LoopStays
  <2> QED BY <1>1, <2>3 DEF Strings
<1>6. ASSUME NEW s \in Strings
      PROVE  /\ Newlines(Two(s, "CR", "LF")) = Append(Newlines(s), "LF")
             /\ \A c \in Unbroken : Newlines(Append(s, c)) = Append(Newlines(s), c)
  <2> DEFINE t == Append(s, "CR")
             o == Newlines(s)
  <2>1. t \in Strings /\ o \in Seq(Symbols)
    BY <1>4, <1>5 DEF Strings
  <2>2. Newlines(t) = Append(o, "CR")
    BY <1>3, <1>4 DEF Newline
  <2> HIDE DEF t, o
  <2>3. Append(o, "CR") # <<>> /\ Last(Append(o, "CR")) = "CR" /\ Front(Append(o, "CR")) = o
    BY <1>4, <2>1 DEF Last, Front
  <2>4. Newlines(Append(t, "LF")) = Newline(0, Append(o, "CR"), "LF")
    BY <1>3, <1>4, <2>1, <2>2
  <2>5. Newlines(Append(t, "LF")) = Append(o, "LF")
    BY <2>3, <2>4 DEF Newline
  <2>6. \A c \in Unbroken : Newlines(Append(s, c)) = Append(o, c)
    BY <1>3 DEF Newline, Unbroken, o
  <2> QED BY <2>5, <2>6 DEF Two, t, o
<1> QED BY <1>2, <1>5, <1>6

\* Changing a sequence's last element.
LEMMA LastChanged ==
  ASSUME NEW T, NEW B \in Seq(T), NEW q \in T, NEW x \in T
  PROVE  /\ [Append(B, q) EXCEPT ![Len(Append(B, q))] = x] = Append(B, x)
         /\ Append(B, q)[Len(Append(B, q))] = q
         /\ Append(B, q) # <<>>
<1>1. Len(B) \in Nat /\ Len(Append(B, q)) = Len(B) + 1
  OBVIOUS
<1>2. Append(B, q)[Len(B) + 1] = q
  OBVIOUS
<1>3. Append(B, q) # <<>>
  BY <1>1
<1> DEFINE f == [Append(B, q) EXCEPT ![Len(B) + 1] = x]
           g == Append(B, x)
<1>4. f \in Seq(T) /\ g \in Seq(T) /\ Len(f) = Len(B) + 1 /\ Len(g) = Len(B) + 1
  BY <1>1
<1>5. ASSUME NEW i \in 1..(Len(B) + 1)
      PROVE  f[i] = g[i]
  <2>1. CASE i = Len(B) + 1
    BY <1>1, <2>1
  <2>2. CASE i # Len(B) + 1
    <3>1. i \in 1..Len(B) /\ i \in DOMAIN Append(B, q)
      BY <1>1, <2>2
    <3>2. Append(B, q)[i] = B[i] /\ Append(B, x)[i] = B[i]
      BY <3>1
    <3>3. f[i] = Append(B, q)[i]
      BY <2>2, <3>1
    <3> QED BY <3>2, <3>3
  <2> QED BY <2>1, <2>2
<1>6. f = g
  <2> HIDE DEF f, g
  <2> QED BY <1>4, <1>5
<1> QED BY <1>1, <1>2, <1>3, <1>6

RawLines(text) == SplitAt(Newlines(text), "LF")

\* A line break starts a raw line, another symbol goes on with the last.
LEMMA RawLinesFollow ==
  /\ RawLines(<<>>) = << <<>> >>
  /\ \A s \in Strings : \A B \in Seq(LineTexts) : \A q \in LineTexts :
       RawLines(s) = Append(B, q) =>
         /\ RawLines(Two(s, "CR", "LF")) = Append(Append(B, q), <<>>)
         /\ \A c \in Unbroken : RawLines(Append(s, c)) = Append(B, Append(q, c))
<1>1. RawLines(<<>>) = << <<>> >>
  BY NewlinesFollow, SplitFollows DEF RawLines
<1>2. ASSUME NEW s \in Strings, NEW B \in Seq(LineTexts), NEW q \in LineTexts,
             RawLines(s) = Append(B, q)
      PROVE  /\ RawLines(Two(s, "CR", "LF")) = Append(Append(B, q), <<>>)
             /\ \A c \in Unbroken : RawLines(Append(s, c)) = Append(B, Append(q, c))
  <2> DEFINE o == Newlines(s)
  <2>1. o \in Strings /\ SplitAt(o, "LF") = Append(B, q) /\ "LF" \in Symbols
    BY <1>2, NewlinesFollow, SymbolsAssumption DEF RawLines
  <2>2. \A c \in Symbols : SplitAt(Append(o, c), "LF") = Cut("LF", Append(B, q), c)
    BY <2>1, SplitFollows
  <2>3. RawLines(Two(s, "CR", "LF")) = SplitAt(Append(o, "LF"), "LF")
    BY NewlinesFollow DEF RawLines
  <2>4. RawLines(Two(s, "CR", "LF")) = Append(Append(B, q), <<>>)
    BY <2>1, <2>2, <2>3 DEF Cut
  <2>5. ASSUME NEW c \in Unbroken
        PROVE  RawLines(Append(s, c)) = Append(B, Append(q, c))
    <3>1. RawLines(Append(s, c)) = SplitAt(Append(o, c), "LF")
      BY NewlinesFollow DEF RawLines
    <3>2. c \in Symbols /\ c # "LF"
      BY DEF Unbroken
    <3>3. RawLines(Append(s, c)) = Cut("LF", Append(B, q), c)
      BY <2>2, <3>1, <3>2
    <3> DEFINE L == Append(B, q)
    <3>4. Cut("LF", L, c) = [L EXCEPT ![Len(L)] = Append(@, c)]
      BY <3>2 DEF Cut
    <3>5. Append(q, c) \in LineTexts
      BY DEF LineTexts
    <3> DEFINE z == Append(q, c)
    <3>6. L[Len(L)] = q /\ [L EXCEPT ![Len(L)] = z] = Append(B, z)
      <4>1. z \in LineTexts
        BY <3>5
      <4> HIDE DEF z
      <4> QED BY <4>1, LastChanged
    <3> HIDE DEF L
    <3> QED BY <3>3, <3>4, <3>6 DEF L
  <2> QED BY <2>4, <2>5
<1> QED BY <1>1, <1>2

\* A raw line that starts with no blank is a line of its own; one that starts
\* with a space goes on with the line before.
GoesOn(raw) == raw # <<>> /\ Head(raw) = " "

\* unfold_vcard_lines: a raw line on its own starts a logical line, ...
LEMMA UnfoldedFirst ==
  ASSUME NEW lines \in Seq(LineTexts), NEW q \in LineTexts, OnItsOwn(q)
  PROVE  Unfolded(lines, q) = Append(lines, q)
<1> DEFINE kept == {0} \cup {i \in DOMAIN q : q[i] # "CR"}
<1>1. Len(q) \in Nat /\ DOMAIN q = 1..Len(q) /\ \A i \in 1..Len(q) : q[i] # "CR"
  BY DEF LineTexts, Unbroken
<1>2. kept = 0..Len(q)
  BY <1>1
<1>3. Max(kept) = Len(q)
  <2> HIDE DEF kept
  <2> QED BY <1>1, <1>2 DEF Max
<1>4. SubSeq(q, 1, Max(kept)) = q
  <2>1. SubSeq(q, 1, Len(q)) = q
    BY SubSeqFull DEF LineTexts
  <2> QED BY <1>3, <2>1
<1> HIDE DEF kept
<1>5. Unfolded(lines, q) = Append(lines, SubSeq(q, 1, Max(kept)))
  BY Zenon DEF Unfolded, kept, OnItsOwn
<1> QED BY <1>4, <1>5

\* ... and a continuation is added to the one before, without its space.
LEMMA UnfoldedMore ==
  ASSUME NEW lines \in Seq(LineTexts), NEW y \in LineTexts, NEW q \in LineTexts, GoesOn(q)
  PROVE  Unfolded(Append(lines, y), q) = Append(lines, y \o Tail(q))
<1> DEFINE L == Append(lines, y)
           z == y \o Tail(q)
<1>1. z \in LineTexts
  <2>1. q \in Seq(Unbroken) /\ q # <<>> /\ y \in Seq(Unbroken)
    BY DEF LineTexts, GoesOn
  <2>2. Tail(q) \in Seq(Unbroken)
    BY <2>1
  <2> QED BY <2>1, <2>2 DEF LineTexts
<1>2. L # <<>> /\ L[Len(L)] = y /\ [L EXCEPT ![Len(L)] = z] = Append(lines, z)
  <2> HIDE DEF z
  <2> QED BY <1>1, LastChanged
<1> HIDE DEF L
<1>3. Unfolded(L, q) = [L EXCEPT ![Len(L)] = @ \o Tail(q)]
  BY <1>2, Zenon DEF Unfolded, GoesOn
<1> QED BY <1>2, <1>3 DEF L
-----------------------------------------------------------------------------
\* ... what is unfolded while they are read, ...

\* Two symbols at the end of a text make a text.
LEMMA TwoText ==
  ASSUME NEW s \in Strings, NEW a \in Symbols, NEW b \in Symbols
  PROVE  Two(s, a, b) \in Strings
BY DEF Two, Strings

\* What is unfolded of some raw lines.
After(raw) == Unfolding!Loop(0, <<>>, raw)

\* Raw lines are unfolded one by one.
LEMMA AfterFollows ==
  /\ After(<<>>) = <<>>
  /\ \A B \in Seq(LineTexts) : \A q \in LineTexts : After(Append(B, q)) = Unfolded(After(B), q)
<1>1. After(<<>>) = <<>>
  BY Unfolding!LoopStarts DEF After
<1>2. ASSUME NEW B \in Seq(LineTexts), NEW q \in LineTexts
      PROVE  After(Append(B, q)) = Unfolded(After(B), q)
  <2>1. Unfolding!Loop(0, <<>>, Append(B, q)) = UnfoldOn(0, Unfolding!Loop(0, <<>>, B), q)
    BY Unfolding!LoopUnrolls
  <2> QED BY <2>1, Zenon DEF After, UnfoldOn
<1> QED BY <1>1, <1>2

\* A text whose last logical line is p so far, after some lines.  Its last
\* physical line is either all of p or, after a space, the end of it.
Reading(text, lines, p) ==
  \E B \in Seq(LineTexts), q \in LineTexts :
    /\ RawLines(text) = Append(B, q)
    /\ \/ After(B) = lines /\ q = p
       \/ /\ GoesOn(q)
          /\ \E y \in LineTexts : After(B) = Append(lines, y) /\ p = y \o Tail(q)

\* A symbol is read onto the line that is being read, ...
LEMMA ReadingGoesOn ==
  ASSUME NEW text \in Strings, NEW lines \in Seq(LineTexts), NEW p \in LineTexts,
         Reading(text, lines, p), NEW c \in Unbroken
  PROVE  Reading(Append(text, c), lines, Append(p, c))
<1>1. PICK B \in Seq(LineTexts), q \in LineTexts :
        /\ RawLines(text) = Append(B, q)
        /\ \/ After(B) = lines /\ q = p
           \/ /\ GoesOn(q)
              /\ \E y \in LineTexts : After(B) = Append(lines, y) /\ p = y \o Tail(q)
  BY DEF Reading
<1> DEFINE q1 == Append(q, c)
<1>2. RawLines(Append(text, c)) = Append(B, q1)
  BY <1>1, RawLinesFollow
<1>3. q1 \in LineTexts
  BY DEF LineTexts
<1>4. CASE After(B) = lines /\ q = p
  BY <1>2, <1>3, <1>4 DEF Reading
<1>5. CASE GoesOn(q) /\ \E y \in LineTexts : After(B) = Append(lines, y) /\ p = y \o Tail(q)
  <2>1. PICK y \in LineTexts : After(B) = Append(lines, y) /\ p = y \o Tail(q)
    BY <1>5
  <2>2. q \in Seq(Unbroken) /\ q # <<>> /\ y \in Seq(Unbroken) /\ Head(q) = " "
    BY <1>5 DEF GoesOn, LineTexts
  <2>3. q1 # <<>> /\ Head(q1) = Head(q) /\ Tail(q1) = Append(Tail(q), c)
    <3>1. q \in Seq(Unbroken) /\ q # <<>>
      BY <2>2
    <3> QED BY <3>1
  <2>4. Tail(q) \in Seq(Unbroken)
    <3>1. q \in Seq(Unbroken) /\ q # <<>>
      BY <2>2
    <3> QED BY <3>1
  <2>5. y \o Append(Tail(q), c) = Append(y \o Tail(q), c)
    <3>1. y \in Seq(Unbroken) /\ Tail(q) \in Seq(Unbroken)
      BY <2>2, <2>4
    <3> DEFINE w == Tail(q)
    <3> HIDE DEF w
    <3> QED BY <3>1 DEF w
  <2>6. GoesOn(q1)
    BY <2>2, <2>3 DEF GoesOn
  <2>7. Append(p, c) = y \o Tail(q1)
    BY <2>1, <2>3, <2>5
  <2> HIDE DEF q1
  <2> QED BY <1>2, <1>3, <2>1, <2>6, <2>7 DEF Reading
<1> QED BY <1>1, <1>4, <1>5

\* ... and a line break ends that line.
LEMMA ReadingEnds ==
  ASSUME NEW text \in Strings, NEW lines \in Seq(LineTexts), NEW p \in LineTexts, OnItsOwn(p),
         Reading(text, lines, p)
  PROVE  \E B \in Seq(LineTexts) :
           /\ RawLines(Two(text, "CR", "LF")) = Append(B, <<>>)
           /\ After(B) = Append(lines, p)
<1>1. PICK B \in Seq(LineTexts), q \in LineTexts :
        /\ RawLines(text) = Append(B, q)
        /\ \/ After(B) = lines /\ q = p
           \/ /\ GoesOn(q)
              /\ \E y \in LineTexts : After(B) = Append(lines, y) /\ p = y \o Tail(q)
  BY DEF Reading
<1>2. RawLines(Two(text, "CR", "LF")) = Append(Append(B, q), <<>>)
  BY <1>1, RawLinesFollow
<1>3. Append(B, q) \in Seq(LineTexts) /\ After(Append(B, q)) = Unfolded(After(B), q)
  BY AfterFollows
<1>4. Unfolded(After(B), q) = Append(lines, p)
  <2>1. CASE After(B) = lines /\ q = p
    BY <2>1, UnfoldedFirst
  <2>2. CASE GoesOn(q) /\ \E y \in LineTexts : After(B) = Append(lines, y) /\ p = y \o Tail(q)
    <3>1. PICK y \in LineTexts : After(B) = Append(lines, y) /\ p = y \o Tail(q)
      BY <2>2
    <3>2. Unfolded(Append(lines, y), q) = Append(lines, y \o Tail(q))
      BY <2>2, UnfoldedMore
    <3> QED BY <3>1, <3>2
  <2> QED BY <1>1, <2>1, <2>2
<1> QED BY <1>2, <1>3, <1>4

\* A line that is broken goes on after a space.
LEMMA ReadingBroken ==
  ASSUME NEW text \in Strings, NEW lines \in Seq(LineTexts), NEW p \in LineTexts, OnItsOwn(p),
         Reading(text, lines, p), NEW c \in Unbroken
  PROVE  Reading(Two(Two(text, "CR", "LF"), " ", c), lines, Append(p, c))
<1> DEFINE sp == " "
           t2 == Two(text, "CR", "LF")
           t3 == Append(t2, sp)
           q == <<sp, c>>
<1>1. PICK B \in Seq(LineTexts) : RawLines(t2) = Append(B, <<>>) /\ After(B) = Append(lines, p)
  BY ReadingEnds
<1>2. /\ "CR" \in Symbols /\ "LF" \in Symbols /\ sp \in Unbroken /\ sp \in Symbols
      /\ c \in Symbols
  BY SymbolsAssumption DEF Unbroken
<1>3. t2 \in Strings
  BY <1>2, TwoText
<1> HIDE DEF t2, sp
<1>4. t3 \in Strings
  BY <1>2, <1>3 DEF Strings
<1>5. <<>> \in LineTexts /\ Append(<<>>, sp) \in LineTexts
  BY <1>2 DEF LineTexts
<1>6. RawLines(t3) = Append(B, Append(<<>>, sp))
  BY <1>1, <1>2, <1>3, <1>5, RawLinesFollow
<1> HIDE DEF t3
<1>7. RawLines(Append(t3, c)) = Append(B, Append(Append(<<>>, sp), c))
  BY <1>4, <1>5, <1>6, RawLinesFollow
<1>8. Append(Append(<<>>, sp), c) = q /\ q \in LineTexts
  <2>1. ASSUME NEW a \in Unbroken, NEW b \in Unbroken
        PROVE  Append(Append(<<>>, a), b) = <<a, b>>
    <3>1. <<>> \in Seq(Unbroken) /\ <<a, b>> \in Seq(Unbroken)
      OBVIOUS
    <3>2. <<>> \o <<a, b>> = <<a, b>>
      BY <3>1, ConcatEmptySeq
    <3>3. <<>> \o <<a, b>> = Append(Append(<<>>, a), b)
      BY <3>1, AppendTwo
    <3> QED BY <3>2, <3>3
  <2>2. \A a, b \in Unbroken : <<a, b>> \in Seq(Unbroken)
    OBVIOUS
  <2> QED BY <1>2, <2>1, <2>2 DEF LineTexts
<1>9. GoesOn(q) /\ Tail(q) = <<c>>
  BY DEF GoesOn, sp
<1>10. Append(p, c) = p \o Tail(q)
  BY <1>9 DEF LineTexts
<1>11. RawLines(Append(t3, c)) = Append(B, q)
  BY <1>7, <1>8
<1> HIDE DEF q
<1>12. Reading(Append(t3, c), lines, Append(p, c))
  BY <1>1, <1>8, <1>9, <1>10, <1>11 DEF Reading
<1> QED BY <1>12 DEF t3, t2, sp, Two
-----------------------------------------------------------------------------
\* ... a folded line, as it is read, ...

\* A line folds with its symbols in order, broken only where it is full.
LEMMA FoldOnFollows ==
  ASSUME NEW out \in Strings, NEW text \in Strings, NEW room \in 0..FoldWidth,
         NEW c \in Unbroken
  PROVE  \E more \in Strings, left \in 0..FoldWidth :
           /\ FoldOn(0, [out |-> text, room |-> room], c) = [out |-> more, room |-> left]
           /\ \/ out \o more = Append(out \o text, c)
              \/ /\ Width(c) > room
                 /\ out \o more = Two(Two(out \o text, "CR", "LF"), " ", c)
<1> DEFINE acc == [out |-> text, room |-> room]
           t == out \o text
<1>1. acc.out = text /\ acc.room = room
  OBVIOUS
<1>2. c \in Symbols /\ t \in Strings
  BY DEF Unbroken, Strings
<1>3. Width(c) \in Nat /\ Width(c) <= FoldWidth - 1 /\ FoldWidth \in Nat
  BY <1>2, WidthAssumption
<1> HIDE DEF acc, t
<1>4. CASE Width(c) <= room
  <2>1. FoldOn(0, acc, c) = [out |-> Append(text, c), room |-> room - Width(c)]
    BY <1>1, <1>4 DEF FoldOn, Folded
  <2>2. Append(text, c) \in Strings /\ room - Width(c) \in 0..FoldWidth
    BY <1>2, <1>3, <1>4 DEF Strings
  <2>3. out \o Append(text, c) = Append(t, c)
    BY <1>2 DEF Strings, t
  <2> QED BY <2>1, <2>2, <2>3 DEF acc, t
<1>5. CASE ~ (Width(c) <= room)
  <2> DEFINE cr == "CR"
             lf == "LF"
             sp == " "
             four == <<cr, lf, sp, c>>
             more == text \o four
  <2>1. FoldOn(0, acc, c) = [out |-> more, room |-> Room - Width(c)]
    BY <1>1, <1>5 DEF FoldOn, Folded
  <2>2. cr \in Symbols /\ lf \in Symbols /\ sp \in Symbols
    BY SymbolsAssumption
  <2>3. Room - Width(c) \in 0..FoldWidth
    BY <1>3 DEF Room
  <2> HIDE DEF cr, lf, sp
  <2>4. four \in Strings
    BY <1>2, <2>2 DEF Strings
  <2>5. t \o four = Two(Two(t, cr, lf), sp, c)
    <3>1. t \in Seq(Symbols)
      BY <1>2 DEF Strings
    <3> QED BY <1>2, <2>2, <3>1, AppendFour DEF Two
  <2> HIDE DEF four
  <2>6. more \in Strings /\ out \o more = t \o four
    BY <2>4, ConcatAssociative DEF Strings, t
  <2>7. Width(c) > room
    BY <1>3, <1>5
  <2> HIDE DEF more
  <2> QED BY <2>1, <2>3, <2>5, <2>6, <2>7 DEF acc, t, cr, lf, sp
<1> QED BY <1>4, <1>5

\* A line folded after whole lines is unfolded after them.
LEMMA FoldedRead ==
  ASSUME NEW out \in Strings, NEW B \in Seq(LineTexts), RawLines(out) = Append(B, <<>>),
         NEW lines \in Seq(LineTexts), After(B) = lines,
         NEW line \in LineTexts, OnItsOwn(line)
  PROVE  \E C \in Seq(LineTexts) :
           /\ RawLines(WriteOn(0, out, line)) = Append(C, <<>>)
           /\ After(C) = Append(lines, line)
<1> DEFINE start == [out |-> <<>>, room |-> FoldWidth]
           state(p) == Folding!Loop(0, start, p)
           Good(p) == \E text \in Strings, room \in 0..FoldWidth :
                        /\ state(p) = [out |-> text, room |-> room]
                        /\ Reading(out \o text, lines, p)
           S == {p \in Seq(Unbroken) : OnItsOwn(p) => Good(p)}
<1>1. state(<<>>) = start
  BY Folding!LoopStarts
<1>2. \A p \in Seq(Unbroken) : \A c \in Unbroken : state(Append(p, c)) = FoldOn(0, state(p), c)
  BY Folding!LoopUnrolls
<1> HIDE DEF state
<1>3. <<>> \in LineTexts /\ <<>> \in Seq(Unbroken) /\ <<>> \in Strings
  BY DEF LineTexts, Strings
<1>4. Reading(out, lines, <<>>)
  BY <1>3 DEF Reading
<1>5. FoldWidth \in 0..FoldWidth /\ FoldWidth \in Nat
  BY WidthAssumption
<1>6. Good(<<>>)
  <2>1. out \o <<>> = out
    BY DEF Strings
  <2> QED BY <1>1, <1>3, <1>4, <1>5, <2>1
<1>7. <<>> \in S
  BY <1>3, <1>6
<1>8. ASSUME NEW p \in Seq(Unbroken), NEW c \in Unbroken, p \in S
      PROVE  Append(p, c) \in S
  <2>1. Append(p, c) \in Seq(Unbroken)
    OBVIOUS
  <2>2. SUFFICES ASSUME OnItsOwn(Append(p, c))
                 PROVE  Good(Append(p, c))
    BY <2>1
  <2>3. OnItsOwn(p) /\ p \in LineTexts
    <3>1. p # <<>> => Head(Append(p, c)) = Head(p)
      OBVIOUS
    <3>2. Append(p, c) # <<>>
      BY LastChanged
    <3> QED BY <2>2, <3>1, <3>2 DEF OnItsOwn, LineTexts
  <2>4. PICK text \in Strings, room \in 0..FoldWidth :
          state(p) = [out |-> text, room |-> room] /\ Reading(out \o text, lines, p)
    BY <1>8, <2>3
  <2>5. PICK more \in Strings, left \in 0..FoldWidth :
           /\ FoldOn(0, [out |-> text, room |-> room], c) = [out |-> more, room |-> left]
           /\ \/ out \o more = Append(out \o text, c)
              \/ /\ Width(c) > room
                 /\ out \o more = Two(Two(out \o text, "CR", "LF"), " ", c)
    BY FoldOnFollows
  <2>6. out \o text \in Strings
    BY DEF Strings
  <2>7. Reading(Append(out \o text, c), lines, Append(p, c))
    BY <2>3, <2>4, <2>6, ReadingGoesOn
  <2>8. Reading(Two(Two(out \o text, "CR", "LF"), " ", c), lines, Append(p, c))
    BY <2>3, <2>4, <2>6, ReadingBroken
  <2>9. Reading(out \o more, lines, Append(p, c))
    BY <2>5, <2>7, <2>8
  <2> QED BY <1>2, <2>4, <2>5, <2>9
<1>9. line \in S
  <2>1. line \in Seq(Unbroken)
    BY DEF LineTexts
  <2> HIDE DEF S
  <2> QED BY <1>7, <1>8, <2>1, Folding!AllBuilt
<1>10. PICK text \in Strings, room \in 0..FoldWidth :
          state(line) = [out |-> text, room |-> room] /\ Reading(out \o text, lines, line)
  BY <1>9
<1>11. \A s : Fold(s) = state(s).out
  BY Zenon DEF Fold, Run, Folding!Loop, FoldOn, state
<1>12. Fold(line) = text
  BY <1>10, <1>11
<1> DEFINE t == out \o text
<1>13. t \in Strings
  BY DEF Strings
<1>14. PICK C \in Seq(LineTexts) :
           RawLines(Two(t, "CR", "LF")) = Append(C, <<>>) /\ After(C) = Append(lines, line)
  <2> HIDE DEF t
  <2> QED BY <1>10, <1>13, ReadingEnds DEF t
<1>15. WriteOn(0, out, line) = Two(t, "CR", "LF")
  <2>1. "CR" \in Symbols /\ "LF" \in Symbols /\ t \in Seq(Symbols)
    BY <1>13, SymbolsAssumption DEF Strings
  <2>2. t \o <<"CR", "LF">> = Two(t, "CR", "LF")
    <3> HIDE DEF t
    <3> QED BY <2>1, AppendTwo DEF Two
  <2> QED BY <1>12, <2>2 DEF WriteOn
<1> QED BY <1>14, <1>15
-----------------------------------------------------------------------------
\* ... and the whole card.

\* A card is unfolded into the lines it was written from, and an empty one
\* after the last line break.
LEMMA CardUnfolds ==
  ASSUME NEW lines \in Seq(Whole), NEW card, card = Writing!Loop(0, <<>>, lines)
  PROVE  Unfold(card) = Append(lines, <<>>)
<1> DEFINE out(ls) == Writing!Loop(0, <<>>, ls)
           S == {ls \in Seq(Whole) :
                   /\ out(ls) \in Strings /\ Fits(out(ls), FoldWidth)
                   /\ \E B \in Seq(LineTexts) :
                        RawLines(out(ls)) = Append(B, <<>>) /\ After(B) = ls}
<1>1. out(<<>>) = <<>>
  BY Writing!LoopStarts
<1>2. \A ls \in Seq(Whole) : \A l \in Whole : out(Append(ls, l)) = WriteOn(0, out(ls), l)
  BY Writing!LoopUnrolls
<1> HIDE DEF out
<1>3. <<>> \in S
  <2>1. <<>> \in Seq(LineTexts) /\ <<>> \in Strings /\ <<>> \in Seq(Whole)
    BY DEF Strings
  <2>2. RawLines(<<>>) = Append(<<>>, <<>>)
    BY RawLinesFollow
  <2>3. Fits(<<>>, FoldWidth)
    BY EmptyFits
  <2> QED BY <1>1, <2>1, <2>2, <2>3, AfterFollows
<1>4. ASSUME NEW ls \in Seq(Whole), NEW l \in Whole, ls \in S
      PROVE  Append(ls, l) \in S
  <2>1. Append(ls, l) \in Seq(Whole) /\ ls \in Seq(LineTexts) /\ l \in LineTexts /\ OnItsOwn(l)
    BY DEF Whole
  <2>2. PICK B \in Seq(LineTexts) : RawLines(out(ls)) = Append(B, <<>>) /\ After(B) = ls
    BY <1>4
  <2>3. out(ls) \in Strings /\ Fits(out(ls), FoldWidth)
    BY <1>4
  <2>4. WriteOn(0, out(ls), l) \in Strings /\ Fits(WriteOn(0, out(ls), l), FoldWidth)
    BY <2>1, <2>3, FoldedFits DEF LineTexts
  <2>5. \E C \in Seq(LineTexts) :
           /\ RawLines(WriteOn(0, out(ls), l)) = Append(C, <<>>)
           /\ After(C) = Append(ls, l)
    BY <2>1, <2>2, <2>3, FoldedRead
  <2>6. out(Append(ls, l)) = WriteOn(0, out(ls), l)
    BY <1>2
  <2> QED BY <2>1, <2>4, <2>5, <2>6
<1>5. lines \in S
  <2> HIDE DEF S
  <2> QED BY <1>3, <1>4, Writing!AllBuilt
<1>6. PICK B \in Seq(LineTexts) : RawLines(card) = Append(B, <<>>) /\ After(B) = lines
  BY <1>5 DEF out
<1>7. Unfold(card) = After(RawLines(card))
  BY Zenon DEF Unfold, Run, Unfolding!Loop, UnfoldOn, After, RawLines
<1>8. <<>> \in LineTexts /\ OnItsOwn(<<>>) /\ lines \in Seq(LineTexts)
  <2>1. Whole \subseteq LineTexts
    BY DEF Whole
  <2>2. lines \in Seq(LineTexts)
    BY <2>1
  <2>3. <<>> \in LineTexts
    BY DEF LineTexts
  <2> QED BY <2>2, <2>3 DEF OnItsOwn
<1>9. After(Append(B, <<>>)) = Unfolded(lines, <<>>)
  BY <1>6, <1>8, AfterFollows
<1> QED BY <1>6, <1>7, <1>8, <1>9, UnfoldedFirst

\* The empty text is a text.
LEMMA NoText == <<>> \in Strings
BY DEF Strings

\* Sequences of one element.
LEMMA OneElement ==
  ASSUME NEW a, NEW b
  PROVE  /\ Append(<<>>, a) = <<a>> /\ Head(<<a>>) = a /\ Last(<<a>>) = a
         /\ [<<a>> EXCEPT ![Len(<<a>>)] = b] = <<b>> /\ <<a>>[Len(<<a>>)] = a
<1>1. Len(<<a>>) = 1 /\ <<a>>[1] = a /\ Head(<<a>>) = a /\ Append(<<>>, a) = <<a>>
  OBVIOUS
<1>2. [<<a>> EXCEPT ![1] = b] = <<b>>
  <2> DEFINE f == [<<a>> EXCEPT ![1] = b]
  <2>1. f \in Seq({a, b}) /\ <<b>> \in Seq({a, b}) /\ Len(f) = 1 /\ Len(<<b>>) = 1
    OBVIOUS
  <2>2. f[1] = <<b>>[1]
    OBVIOUS
  <2> HIDE DEF f
  <2> QED BY <2>1, <2>2
<1> QED BY <1>1, <1>2 DEF Last

\* What is before the colon of a line is read as its property.
LEMMA PropertyOfName ==
  ASSUME NEW name \in Symbols, name # ";", name # "."
  PROVE  PropertyOf(<<name>>) = <<name>>
<1>1. <<>> \in Strings /\ Append(<<>>, name) = <<name>>
  BY NoText, OneElement
<1>2. ASSUME NEW at, name # at
      PROVE  SplitAt(<<name>>, at) = << <<name>> >>
  <2> DEFINE L == << <<>> >>
             one == <<name>>
  <2>1. SplitAt(one, at) = Cut(at, L, name)
    BY <1>1, SplitFollows
  <2>2. Cut(at, L, name) = [L EXCEPT ![Len(L)] = Append(@, name)]
    BY <1>2, Zenon DEF Cut
  <2> HIDE DEF one
  <2>3. L[Len(L)] = <<>> /\ [L EXCEPT ![Len(L)] = one] = <<one>>
    BY OneElement, Zenon
  <2> HIDE DEF L
  <2> QED BY <1>1, <2>1, <2>2, <2>3 DEF one
<1>3. SplitAt(<<name>>, ";") = << <<name>> >> /\ SplitAt(<<name>>, ".") = << <<name>> >>
  BY <1>2
<1>4. Head(<< <<name>> >>) = <<name>> /\ Last(<< <<name>> >>) = <<name>>
  BY OneElement, Zenon
<1> QED BY <1>3, <1>4, Zenon DEF PropertyOf

\* ... and what is after it as its value.
LEMMA LineParts ==
  ASSUME NEW name \in Symbols, name # ":", NEW value \in Strings, NEW line,
         line = Line(name, value)
  PROVE  /\ {i \in DOMAIN line : line[i] = ":"} # {}
         /\ Min({i \in DOMAIN line : line[i] = ":"}) = 2
         /\ SubSeq(line, 1, 1) = <<name>>
         /\ SubSeq(line, 3, Len(line)) = value
<1> DEFINE colon == ":"
           colons == {i \in DOMAIN line : line[i] = colon}
<1>1. colon \in Symbols /\ name # colon
  BY SymbolsAssumption
<1>2. line = <<name, colon>> \o value /\ value \in Seq(Symbols)
  BY DEF Line, Strings
<1> HIDE DEF colon
<1>3. /\ line \in Seq(Symbols) /\ Len(line) = Len(value) + 2 /\ line[1] = name
      /\ line[2] = colon /\ SubSeq(line, 1, 1) = <<name>> /\ SubSeq(line, 3, Len(line)) = value
  <2> DEFINE s == <<name, colon>> \o value
  <2>1. /\ s \in Seq(Symbols) /\ Len(s) = Len(value) + 2 /\ s[1] = name
        /\ s[2] = colon /\ SubSeq(s, 1, 1) = <<name>> /\ SubSeq(s, 3, Len(s)) = value
    <3>1. value \in Seq(Symbols)
      BY <1>2
    <3> QED BY <1>1, <3>1, TwoInFront
  <2> HIDE DEF s
  <2>2. line = s
    BY <1>2 DEF s
  <2> QED BY <2>1, <2>2
<1>4. DOMAIN line = 1..(Len(value) + 2) /\ Len(value) \in Nat
  BY <1>2, <1>3
<1>5. 2 \in colons /\ \A i \in colons : 2 <= i
  BY <1>1, <1>3, <1>4
<1>6. Min(colons) = 2
  <2>1. colons \subseteq Nat
    BY <1>4
  <2> HIDE DEF colons
  <2>2. \A m \in colons : (\A i \in colons : m <= i) => m = 2
    BY <1>5, <2>1
  <2> QED BY <1>5, <2>2 DEF Min
<1> QED BY <1>3, <1>5, <1>6 DEF colon
-----------------------------------------------------------------------------
\* parse_vcard takes each logical line apart.

\* What a line adds to a contact.
Kept(k, tag, value) ==
  CASE tag = "UID"   -> [k EXCEPT !.uid = Unescape(value)]
    [] tag = "FN"    -> [k EXCEPT !.full_name = Unescape(value)]
    [] tag = "N"     -> [k EXCEPT !.family_name = Unescape(SplitAt(value, ";")[1]),
                                  !.given_name = Unescape(Part(SplitAt(value, ";"), 2))]
    [] tag = "EMAIL" -> [k EXCEPT !.emails = Append(@, Bare(Unescape(value), "mailto:"))]
    [] tag = "TEL"   -> [k EXCEPT !.phones = Append(@, Bare(Unescape(value), "tel:"))]
    [] tag = "ORG"   -> [k EXCEPT !.organization = Head(SplitAt(Unescape(value), ";"))]
    [] tag = "TITLE" -> [k EXCEPT !.title = Unescape(value)]
    [] tag = "NOTE"  -> [k EXCEPT !.note = Unescape(value)]
    [] OTHER -> k

\* parse_vcard takes a line apart at its first colon.
LEMMA LineRead ==
  ASSUME NEW k, NEW tag \in Tags, NEW value \in Strings, NEW line, line = Line(tag, value)
  PROVE  ReadLine(k, line) = Kept(k, tag, value)
<1> DEFINE colons == {i \in DOMAIN line : line[i] = ":"}
           at == Min(colons)
           name == PropertyOf(SubSeq(line, 1, at - 1))
           raw == SubSeq(line, at + 1, Len(line))
           Uid(r) == [k EXCEPT !.uid = Unescape(r)]
           Fn(r) == [k EXCEPT !.full_name = Unescape(r)]
           Name(r) == [k EXCEPT !.family_name = Unescape(SplitAt(r, ";")[1]),
                                !.given_name = Unescape(Part(SplitAt(r, ";"), 2))]
           Email(r) == [k EXCEPT !.emails = Append(@, Bare(Unescape(r), "mailto:"))]
           Tel(r) == [k EXCEPT !.phones = Append(@, Bare(Unescape(r), "tel:"))]
           Org(r) == [k EXCEPT !.organization = Head(SplitAt(Unescape(r), ";"))]
           Title(r) == [k EXCEPT !.title = Unescape(r)]
           Note(r) == [k EXCEPT !.note = Unescape(r)]
<1>1. tag \in Symbols /\ tag # ":" /\ tag # ";" /\ tag # "."
  BY SymbolsAssumption DEF Tags
<1>2. /\ colons # {} /\ at = 2
      /\ SubSeq(line, 1, 1) = <<tag>> /\ SubSeq(line, 3, Len(line)) = value
  <2> HIDE DEF name, raw, Uid, Fn, Name, Email, Tel, Org, Title, Note
  <2> QED BY <1>1, LineParts, Zenon
<1>3. PropertyOf(<<tag>>) = <<tag>>
  BY <1>1, PropertyOfName
<1>4. name = <<tag>> /\ raw = value
  <2> HIDE DEF colons, at
  <2>1. at - 1 = 1 /\ at + 1 = 3
    BY <1>2
  <2> QED BY <1>2, <1>3, <2>1
<1>5. ReadLine(k, line) =
        IF colons = {} THEN k ELSE
        CASE name = <<"UID">>   -> Uid(raw)
          [] name = <<"FN">>    -> Fn(raw)
          [] name = <<"N">>     -> Name(raw)
          [] name = <<"EMAIL">> -> Email(raw)
          [] name = <<"TEL">>   -> Tel(raw)
          [] name = <<"ORG">>   -> Org(raw)
          [] name = <<"TITLE">> -> Title(raw)
          [] name = <<"NOTE">>  -> Note(raw)
          [] OTHER -> k
  BY Zenon DEF ReadLine
<1> HIDE DEF colons, name, raw, at, Uid, Fn, Name, Email, Tel, Org, Title, Note
<1>6. \A a : name = <<a>> <=> tag = a
  <2>1. \A a, b : <<a>> = <<b>> <=> a = b
    BY OneElement
  <2> QED BY <1>4, <2>1
<1>7. ReadLine(k, line) =
        CASE tag = "UID"   -> Uid(value)
          [] tag = "FN"    -> Fn(value)
          [] tag = "N"     -> Name(value)
          [] tag = "EMAIL" -> Email(value)
          [] tag = "TEL"   -> Tel(value)
          [] tag = "ORG"   -> Org(value)
          [] tag = "TITLE" -> Title(value)
          [] tag = "NOTE"  -> Note(value)
          [] OTHER -> k
  BY <1>2, <1>4, <1>5, <1>6
<1> QED BY <1>7, Zenon DEF Kept, Uid, Fn, Name, Email, Tel, Org, Title, Note

\* A contact, by its fields.
Fields(uid, full, family, first, emails, phones, org, title, note) ==
  [uid |-> uid, full_name |-> full, given_name |-> first, family_name |-> family,
   emails |-> emails, phones |-> phones, organization |-> org, title |-> title, note |-> note]
-----------------------------------------------------------------------------
\* Splitting at a delimiter that the parts do not hold.

\* A sequence with one more element.
LEMMA OneMore ==
  ASSUME NEW T, NEW s \in Seq(T), NEW e \in T, NEW r, r = Append(s, e)
  PROVE  /\ r \in Seq(T) /\ Len(r) = Len(s) + 1 /\ r[Len(s) + 1] = e
         /\ \A i \in 1..Len(s) : r[i] = s[i]
BY AppendProperties

\* Sequences of two elements.
LEMMA TwoElements ==
  ASSUME NEW x, NEW y, NEW z, NEW p, p = <<x, y>>
  PROVE  /\ Append(<<x>>, y) = p /\ p[Len(p)] = y
         /\ [p EXCEPT ![Len(p)] = z] = <<x, z>>
<1> DEFINE T == {x, y, z}
           q == <<x, z>>
           one == <<x>>
           f == [p EXCEPT ![2] = z]
           g == Append(one, y)
<1>1. x \in T /\ y \in T /\ z \in T
  OBVIOUS
<1>2. /\ p \in Seq(T) /\ Len(p) = 2 /\ p[1] = x /\ p[2] = y
      /\ q \in Seq(T) /\ Len(q) = 2 /\ q[1] = x /\ q[2] = z
      /\ one \in Seq(T) /\ Len(one) = 1 /\ one[1] = x
  OBVIOUS
<1> HIDE DEF T, q, one
<1>3. f = q
  <2>1. f \in Seq(T) /\ Len(f) = 2 /\ f[1] = x /\ f[2] = z
    BY <1>1, <1>2, ExceptSeq
  <2> HIDE DEF f
  <2>2. \A i \in 1..2 : f[i] = q[i]
    BY <1>2, <2>1
  <2> QED BY <1>2, <2>1, <2>2, SeqEqual
<1>4. g = p
  <2>1. one \in Seq(T) /\ y \in T /\ Len(one) = 1 /\ one[1] = x
    BY <1>1, <1>2
  <2> HIDE DEF f
  <2>2. /\ g \in Seq(T) /\ Len(g) = Len(one) + 1 /\ g[Len(one) + 1] = y
        /\ \A i \in 1..Len(one) : g[i] = one[i]
    <3>1. g = Append(one, y)
      OBVIOUS
    <3> HIDE DEF g
    <3> QED BY <2>1, <3>1, OneMore
  <2> HIDE DEF g
  <2>3. Len(g) = 2 /\ \A i \in 1..2 : g[i] = p[i]
    BY <1>2, <2>1, <2>2
  <2> QED BY <1>2, <2>2, <2>3, SeqEqual
<1>5. Len(p) = 2
  BY <1>2
<1> HIDE DEF f, g
<1>6. g = p /\ p[Len(p)] = y /\ f = q
  BY <1>2, <1>3, <1>4
<1>7. f = [p EXCEPT ![Len(p)] = z]
  BY <1>5, Zenon DEF f
<1> QED BY <1>6, <1>7, Zenon DEF f, g, q, one

\* A text without the delimiter is one part, ...
LEMMA SplitNone ==
  ASSUME NEW at
  PROVE  \A s \in Seq(Symbols \ {at}) : SplitAt(s, at) = <<s>>
<1> DEFINE T == Symbols \ {at}
           S == {s \in Seq(T) : s \in Strings /\ SplitAt(s, at) = <<s>>}
<1>1. <<>> \in S
  BY NoText, SplitFollows
<1>2. ASSUME NEW s \in Seq(T), NEW c \in T, s \in S
      PROVE  Append(s, c) \in S
  <2> DEFINE t == Append(s, c)
  <2>1. t \in Seq(T) /\ t \in Strings /\ s \in Strings /\ c \in Symbols /\ c # at
    BY <1>2 DEF Strings
  <2>2. SplitAt(t, at) = Cut(at, <<s>>, c)
    BY <1>2, <2>1, SplitFollows
  <2>3. Cut(at, <<s>>, c) = [<<s>> EXCEPT ![Len(<<s>>)] = Append(@, c)]
    BY <2>1, Zenon DEF Cut
  <2> HIDE DEF t
  <2>4. <<s>>[Len(<<s>>)] = s /\ [<<s>> EXCEPT ![Len(<<s>>)] = t] = <<t>>
    BY OneElement, Zenon
  <2>5. [<<s>> EXCEPT ![Len(<<s>>)] = Append(@, c)] = <<t>>
    BY <2>4, Zenon DEF t
  <2> QED BY <2>1, <2>2, <2>3, <2>5 DEF t
<1> HIDE DEF S
<1>3. \A s \in Seq(T) : s \in S
  BY <1>1, <1>2, Splitting!AllBuilt
<1> QED BY <1>3 DEF S

\* ... and one after another text belongs to its last part.
LEMMA SplitMore ==
  ASSUME NEW at, NEW s \in Strings, NEW x, NEW y \in Strings, SplitAt(s, at) = <<x, y>>
  PROVE  \A b \in Seq(Symbols \ {at}) : SplitAt(s \o b, at) = <<x, y \o b>>
<1> DEFINE T == Symbols \ {at}
           S == {b \in Seq(T) : SplitAt(s \o b, at) = <<x, y \o b>>}
<1>1. <<>> \in S
  <2>1. s \o <<>> = s /\ y \o <<>> = y /\ <<>> \in Seq(T)
    BY DEF Strings
  <2> QED BY <2>1
<1>2. ASSUME NEW b \in Seq(T), NEW c \in T, b \in S
      PROVE  Append(b, c) \in S
  <2> DEFINE t == s \o b
             z == y \o b
             zc == Append(z, c)
  <2>1. b \in Seq(Symbols) /\ c \in Symbols /\ c # at
    OBVIOUS
  <2>2. /\ t \in Strings /\ s \o Append(b, c) = Append(t, c) /\ y \o Append(b, c) = zc
    BY <2>1 DEF Strings
  <2>3. SplitAt(t, at) = <<x, z>>
    BY <1>2
  <2> HIDE DEF t, z, zc
  <2> DEFINE p == <<x, z>>
  <2>4. p[Len(p)] = z /\ [p EXCEPT ![Len(p)] = zc] = <<x, zc>>
    <3>1. \A q : q = <<x, z>> => q[Len(q)] = z /\ [q EXCEPT ![Len(q)] = zc] = <<x, zc>>
      BY TwoElements
    <3> QED BY <3>1, Zenon
  <2> HIDE DEF p
  <2>5. SplitAt(Append(t, c), at) = Cut(at, p, c)
    BY <2>1, <2>2, <2>3, SplitFollows DEF p
  <2>6. Cut(at, p, c) = [p EXCEPT ![Len(p)] = Append(@, c)]
    BY <2>1, Zenon DEF Cut
  <2>7. [p EXCEPT ![Len(p)] = Append(@, c)] = <<x, zc>>
    BY <2>4, Zenon DEF zc
  <2>8. Append(b, c) \in Seq(T)
    OBVIOUS
  <2> QED BY <2>2, <2>5, <2>6, <2>7, <2>8
<1> HIDE DEF S
<1>3. \A b \in Seq(T) : b \in S
  BY <1>1, <1>2, Splitting!AllBuilt
<1> QED BY <1>3 DEF S

\* Escaping adds no delimiter to a text that has none.
LEMMA EscapeUndelimited ==
  \A s \in Seq(Symbols \ {";"}) : Escape(s) \in Seq(Symbols \ {";"})
<1> DEFINE T == Symbols \ {";"}
           S == {s \in Seq(T) : Escape(s) \in Seq(T)}
           bs == "\\"
           n == "n"
<1>1. bs \in T /\ n \in T /\ T \subseteq Symbols /\ ";" \notin T
  BY SymbolsAssumption
<1> HIDE DEF T, n
<1>2. <<>> \in S
  <2>1. <<>> \in Seq(T)
    OBVIOUS
  <2> QED BY <2>1, EscapeFollows
<1>3. \A e \in Seq(T) : \A a, b \in T : Append(e, a) \in Seq(T) /\ Two(e, a, b) \in Seq(T)
  <2>1. \A e \in Seq(T) : \A a \in T : Append(e, a) \in Seq(T)
    OBVIOUS
  <2> QED BY <2>1 DEF Two
<1>4. ASSUME NEW s \in Seq(T), NEW c \in T, s \in S
      PROVE  Append(s, c) \in S
  <2> DEFINE e == Escape(s)
             t == Append(s, c)
  <2>1. s \in Strings /\ e \in Seq(T) /\ t \in Seq(T)
    <3>1. s \in Seq(Symbols)
      BY <1>1, SeqMonotonic
    <3> QED BY <1>4, <3>1 DEF Strings
  <2>2. c \in Symbols /\ c # ";"
    BY <1>1
  <2>3. Escape(t) \in Seq(T)
    <3>1. CASE c = "CR"
      <4>1. Escape(t) = e
        BY <2>1, <3>1, EscapeFollows
      <4> QED BY <2>1, <4>1
    <3>2. CASE c = "LF"
      <4>1. Escape(t) = Two(e, bs, n)
        BY <2>1, <3>2, EscapeFollows DEF n
      <4> HIDE DEF e, t, bs
      <4> QED BY <1>1, <1>3, <2>1, <4>1
    <3>3. CASE c \in {bs, ","}
      <4>1. Escape(t) = Two(e, bs, c)
        BY <2>1, <3>3, EscapeFollows
      <4> HIDE DEF e, t, bs
      <4> QED BY <1>1, <1>3, <2>1, <4>1
    <3>4. CASE c \notin Special
      <4>1. Escape(t) = Append(e, c)
        BY <2>1, <2>2, <3>4, EscapeFollows
      <4> HIDE DEF e, t
      <4> QED BY <1>3, <2>1, <4>1
    <3> QED BY <2>2, <3>1, <3>2, <3>3, <3>4 DEF Special
  <2> QED BY <2>1, <2>3
<1>5. \A s \in Seq(T) : s \in S
  BY <1>2, <1>4, Splitting!AllBuilt
<1> QED BY <1>5 DEF S, T
-----------------------------------------------------------------------------
\* The parts of the name, which the writer escapes.

\* Three of the same are appended one by one.
LEMMA AppendThree ==
  ASSUME NEW T, NEW s \in Seq(T), NEW a \in T
  PROVE  s \o <<a, a, a>> = Append(Append(Append(s, a), a), a)
<1> DEFINE t == s \o <<a, a>>
           two == <<a, a>>
           one == <<a>>
<1>1. s \o <<a, a, a>> = t \o one
  <2>1. <<a, a, a>> = two \o one
    BY ThreeElements
  <2>2. two \in Seq(T) /\ one \in Seq(T)
    OBVIOUS
  <2> HIDE DEF two, one
  <2>3. (s \o two) \o one = s \o (two \o one)
    BY <2>2, ConcatAssociative
  <2> QED BY <2>1, <2>3 DEF two
<1>2. t = Append(Append(s, a), a) /\ t \in Seq(T)
  BY AppendTwo
<1> HIDE DEF t
<1>3. t \o one = Append(t, a)
  BY <1>2, AppendIsConcat
<1> QED BY <1>1, <1>2, <1>3

\* A sequence of two still starts with them when three more come after them.
LEMMA FirstTwo ==
  ASSUME NEW x, NEW y, NEW z, NEW q, q = Append(Append(Append(<<x, y>>, z), z), z)
  PROVE  q[1] = x /\ q[2] = y /\ Len(q) = 5
<1> DEFINE T == {x, y, z}
           p == <<x, y>>
           a == Append(p, z)
           b == Append(a, z)
           W(n) == {s \in Seq(T) : Len(s) = n /\ s[1] = x /\ s[2] = y}
<1>1. p \in W(2) /\ z \in T
  OBVIOUS
<1> HIDE DEF T, p
<1>2. ASSUME NEW n \in Nat, n >= 2, NEW s \in W(n)
      PROVE  Append(s, z) \in W(n + 1)
  <2>1. s \in Seq(T) /\ Len(s) = n
    OBVIOUS
  <2> DEFINE t == Append(s, z)
  <2>2. t \in Seq(T) /\ Len(t) = n + 1
    BY <1>1, <2>1, AppendProperties
  <2>3. \A i \in 1..Len(s) : t[i] = s[i]
    BY <1>1, <2>1, AppendProperties
  <2> HIDE DEF t
  <2>4. 1 \in 1..Len(s) /\ 2 \in 1..Len(s)
    BY <1>2, <2>1
  <2>5. t[1] = x /\ t[2] = y
    BY <2>3, <2>4
  <2>6. t \in W(n + 1)
    BY <2>2, <2>5
  <2> QED BY <2>6 DEF t
<1> HIDE DEF W
<1>3. a \in W(3)
  BY <1>1, <1>2
<1> HIDE DEF a
<1>4. b \in W(4)
  BY <1>2, <1>3
<1> HIDE DEF b
<1>5. Append(b, z) \in W(5)
  BY <1>2, <1>4
<1>6. q = Append(b, z)
  BY Zenon DEF b, a, p
<1> QED BY <1>5, <1>6 DEF W

\* What is before the first delimiter of the value of N, and before the second.
LEMMA NameSplits ==
  ASSUME NEW at \in Symbols, NEW e \in Seq(Symbols \ {at}), NEW g \in Seq(Symbols \ {at})
  PROVE  LET parts == SplitAt(e \o <<at>> \o g \o <<at, at, at>>, at)
         IN  parts[1] = e /\ Part(parts, 2) = g
<1> DEFINE a == Append(e, at)
           b == a \o g
           parts == SplitAt(e \o <<at>> \o g \o <<at, at, at>>, at)
<1>1. e \in Strings /\ g \in Strings /\ a \in Strings /\ b \in Strings
  BY SeqMonotonic DEF Strings
<1>2. e \o <<at>> \o g \o <<at, at, at>> = Append(Append(Append(b, at), at), at)
  <2>1. e \o <<at>> = a
    BY <1>1 DEF Strings
  <2>2. b \in Seq(Symbols)
    BY <1>1 DEF Strings
  <2> HIDE DEF a, b
  <2>3. b \o <<at, at, at>> = Append(Append(Append(b, at), at), at)
    BY <2>2, AppendThree
  <2> QED BY <2>1, <2>3 DEF b
<1>3. SplitAt(a, at) = <<e, <<>>>>
  <2>1. SplitAt(e, at) = <<e>>
    BY SplitNone
  <2>2. SplitAt(a, at) = Cut(at, <<e>>, at)
    BY <1>1, <2>1, SplitFollows
  <2>3. Cut(at, <<e>>, at) = Append(<<e>>, <<>>)
    BY Zenon DEF Cut
  <2>4. Append(<<e>>, <<>>) = <<e, <<>>>>
    <3>1. \A q : q = <<e, <<>>>> => Append(<<e>>, <<>>) = q
      BY TwoElements
    <3> QED BY <3>1, Zenon
  <2> QED BY <2>2, <2>3, <2>4
<1>4. SplitAt(b, at) = <<e, g>>
  <2>1. <<>> \o g = g
    BY ConcatEmptySeq
  <2>2. SplitAt(a \o g, at) = <<e, <<>> \o g>>
    <3>1. ASSUME NEW s \in Strings, NEW y \in Strings, SplitAt(s, at) = <<e, y>>
          PROVE  \A t \in Seq(Symbols \ {at}) : SplitAt(s \o t, at) = <<e, y \o t>>
      <4> HIDE DEF parts, b, a
      <4> QED BY <3>1, SplitMore, Zenon
    <3>2. \A t \in Seq(Symbols \ {at}) : SplitAt(a \o t, at) = <<e, <<>> \o t>>
      BY <1>1, <1>3, <3>1, NoText, Zenon
    <3> QED BY <3>2, Zenon
  <2> QED BY <2>1, <2>2, Zenon
<1> DEFINE c == Append(b, at)
           d == Append(c, at)
           f == Append(d, at)
<1>5. b \in Strings /\ c \in Strings /\ d \in Strings
  BY <1>1, AppendProperties DEF Strings
<1> HIDE DEF a, b
<1>6. ASSUME NEW s \in Strings
      PROVE  SplitAt(Append(s, at), at) = Append(SplitAt(s, at), <<>>)
  <2>1. SplitAt(Append(s, at), at) = Cut(at, SplitAt(s, at), at)
    BY SplitFollows
  <2> QED BY <2>1, Zenon DEF Cut
<1>7. SplitAt(f, at) = Append(Append(Append(<<e, g>>, <<>>), <<>>), <<>>)
  <2>1. SplitAt(c, at) = Append(<<e, g>>, <<>>)
    BY <1>4, <1>5, <1>6, Zenon
  <2> HIDE DEF c
  <2>2. SplitAt(d, at) = Append(Append(<<e, g>>, <<>>), <<>>)
    BY <1>5, <1>6, <2>1, Zenon
  <2> HIDE DEF d
  <2> QED BY <1>5, <1>6, <2>2, Zenon
<1>8. parts = SplitAt(f, at)
  BY <1>2, Zenon
<1> HIDE DEF parts
<1>9. parts[1] = e /\ parts[2] = g /\ Len(parts) = 5
  <2>1. parts = Append(Append(Append(<<e, g>>, <<>>), <<>>), <<>>)
    BY <1>7, <1>8, Zenon
  <2>2. \A q : q = Append(Append(Append(<<e, g>>, <<>>), <<>>), <<>>) =>
          q[1] = e /\ q[2] = g /\ Len(q) = 5
    BY FirstTwo
  <2> QED BY <2>1, <2>2, Zenon
<1>10. Part(parts, 2) = g
  BY <1>9 DEF Part
<1> QED BY <1>9, <1>10 DEF parts
-----------------------------------------------------------------------------
\* The loop of parse_vcard, over the lines of each part of a card.

\* parse_vcard's loop.
ReadOn(p, k, line) == ReadLine(k, line)
Parsing == INSTANCE Loops WITH Step <- ReadOn
Contents(k, lines) == Parsing!Loop(0, k, lines)

\* Lines are read one by one.
LEMMA ContentsFollow ==
  /\ \A card : ParseVcard(card) = Contents(NoFields, Unfold(card))
  /\ \A k : Contents(k, <<>>) = k
  /\ \A k : \A lines \in Seq(Whole) : \A line \in Whole :
       Contents(k, Append(lines, line)) = ReadLine(Contents(k, lines), line)
  /\ \A k : \A a, b \in Seq(Whole) : Contents(k, a \o b) = Contents(Contents(k, a), b)
<1>1. \A card : ParseVcard(card) = Contents(NoFields, Unfold(card))
  BY Zenon DEF ParseVcard, Run, Contents, Parsing!Loop, ReadOn
<1>2. \A k : Contents(k, <<>>) = k
  BY Parsing!LoopStarts, Zenon DEF Contents
<1>3. ASSUME NEW k, NEW lines \in Seq(Whole), NEW line \in Whole
      PROVE  Contents(k, Append(lines, line)) = ReadLine(Contents(k, lines), line)
  <2>1. Parsing!Loop(0, k, Append(lines, line)) = ReadOn(0, Parsing!Loop(0, k, lines), line)
    BY Parsing!LoopUnrolls
  <2> QED BY <2>1, Zenon DEF Contents, ReadOn
<1>4. ASSUME NEW k, NEW a \in Seq(Whole), NEW b \in Seq(Whole)
      PROVE  Contents(k, a \o b) = Contents(Contents(k, a), b)
  <2>1. Parsing!Loop(0, k, a \o b) = Parsing!Loop(0, Parsing!Loop(0, k, a), b)
    BY Parsing!LoopGoesOn
  <2> QED BY <2>1, Zenon DEF Contents
<1> QED BY <1>1, <1>2, <1>3, <1>4, Zenon

\* A line with no property of interest changes nothing, ...
LEMMA OtherRead ==
  ASSUME NEW k, NEW tag \in {"BEGIN", "VERSION", "END"}, NEW value \in Strings
  PROVE  ReadLine(k, Line(tag, value)) = k
<1> DEFINE line == Line(tag, value)
<1>1. tag \in Tags /\ line = Line(tag, value)
  BY DEF Tags
<1>2. tag \notin {"UID", "FN", "N", "EMAIL", "TEL", "ORG", "TITLE", "NOTE"}
  OBVIOUS
<1> HIDE DEF line
<1>3. ReadLine(k, line) = Kept(k, tag, value)
  BY <1>1, LineRead
<1>4. Kept(k, tag, value) = k
  BY <1>2 DEF Kept
<1> QED BY <1>3, <1>4 DEF line

\* ... nor does the empty one after a card's last line break.
LEMMA EmptyRead == \A k : ReadLine(k, <<>>) = k
<1>1. {i \in DOMAIN <<>> : <<>>[i] = ":"} = {}
  OBVIOUS
<1> QED BY <1>1 DEF ReadLine

\* A property a card has once, or not at all when it is empty.
LEMMA OneRead ==
  ASSUME NEW tag \in Tags, NEW value \in Strings, NEW k, NEW m,
         ReadLine(k, Line(tag, Escape(value))) = m, value = <<>> => m = k
  PROVE  Contents(k, OneLine(tag, value)) = m
<1>1. CASE value = <<>>
  <2>1. OneLine(tag, value) = <<>>
    BY <1>1 DEF OneLine
  <2>2. <<>> \in Seq(Whole)
    OBVIOUS
  <2> QED BY <1>1, <2>1, <2>2, ContentsFollow
<1>2. CASE value # <<>>
  <2> DEFINE line == Line(tag, Escape(value))
  <2>1. OneLine(tag, value) = <<line>>
    BY <1>2, Zenon DEF OneLine
  <2>2. line \in Whole
    BY EscapeUnbroken, LineWhole DEF LineTexts
  <2>3. ReadLine(k, line) = m
    OBVIOUS
  <2> HIDE DEF line
  <2>4. <<>> \in Seq(Whole) /\ <<line>> \in Seq(Whole) /\ Append(<<>>, line) = <<line>>
    BY <2>2
  <2>5. Contents(k, Append(<<>>, line)) = ReadLine(Contents(k, <<>>), line)
    BY <2>2, <2>4, ContentsFollow
  <2>6. Contents(k, <<>>) = k
    BY ContentsFollow
  <2> QED BY <2>1, <2>3, <2>4, <2>5, <2>6
<1> QED BY <1>1, <1>2

\* What is read of the values of a property a card has once for each.
BareEach(scheme, values) == [i \in DOMAIN values |-> Bare(Plain(values[i]), scheme)]

\* The lines of a repeated property, and what they hold, follow its values.
LEMMA EachFollows ==
  ASSUME NEW values \in Seq(Strings), NEW v \in Strings
  PROVE  /\ \A tag : EachLine(tag, Append(values, v)) =
                       Append(EachLine(tag, values), Line(tag, Escape(v)))
         /\ \A scheme : BareEach(scheme, Append(values, v)) =
                          Append(BareEach(scheme, values), Bare(Plain(v), scheme))
<1> DEFINE longer == Append(values, v)
           n == Len(values)
<1>1. n \in Nat /\ DOMAIN values = 1..n /\ DOMAIN longer = 1..(n + 1)
      /\ longer[n + 1] = v /\ \A i \in 1..n : longer[i] = values[i]
  OBVIOUS
<1> HIDE DEF longer, n
<1>2. ASSUME NEW tag
      PROVE  EachLine(tag, longer) = Append(EachLine(tag, values), Line(tag, Escape(v)))
  <2> DEFINE G == [i \in 1..(n + 1) |-> Line(tag, Escape(longer[i]))]
             F == [i \in 1..n |-> Line(tag, Escape(values[i]))]
  <2>1. EachLine(tag, longer) = G /\ EachLine(tag, values) = F
    BY <1>1 DEF EachLine
  <2>2. G[n + 1] = Line(tag, Escape(v)) /\ \A i \in 1..n : G[i] = F[i]
    BY <1>1
  <2> DEFINE T == {G[i] : i \in 1..(n + 1)}
  <2>3. G \in [1..(n + 1) -> T] /\ F \in [1..n -> T]
    BY <1>1, <2>2
  <2> HIDE DEF G, F, T
  <2>4. G = Append(F, G[n + 1])
    BY <1>1, <2>2, <2>3, LongerByOne
  <2> QED BY <2>1, <2>2, <2>4
<1>3. ASSUME NEW scheme
      PROVE  BareEach(scheme, longer)
               = Append(BareEach(scheme, values), Bare(Plain(v), scheme))
  <2> DEFINE G == [i \in 1..(n + 1) |-> Bare(Plain(longer[i]), scheme)]
             F == [i \in 1..n |-> Bare(Plain(values[i]), scheme)]
  <2>1. BareEach(scheme, longer) = G /\ BareEach(scheme, values) = F
    BY <1>1 DEF BareEach
  <2>2. G[n + 1] = Bare(Plain(v), scheme) /\ \A i \in 1..n : G[i] = F[i]
    BY <1>1
  <2> DEFINE T == {G[i] : i \in 1..(n + 1)}
  <2>3. G \in [1..(n + 1) -> T] /\ F \in [1..n -> T]
    BY <1>1, <2>2
  <2> HIDE DEF G, F, T
  <2>4. G = Append(F, G[n + 1])
    BY <1>1, <2>2, <2>3, LongerByOne
  <2> QED BY <2>1, <2>2, <2>4
<1> QED BY <1>2, <1>3 DEF longer

\* What follows a scheme is a text.
LEMMA BareText ==
  ASSUME NEW v \in Strings, NEW scheme
  PROVE  Bare(v, scheme) \in Strings
BY DEF Bare, Strings

\* A property a card has once for each value adds each, by what F tells a
\* list of values from the next.
LEMMA EachRead ==
  ASSUME NEW tag \in Tags, NEW scheme, NEW F,
         \A e \in Seq(Strings) : \A v \in Strings :
           ReadLine(F[e], Line(tag, Escape(v))) = F[Append(e, Bare(Plain(v), scheme))]
  PROVE  \A values \in Seq(Strings) :
           /\ EachLine(tag, values) \in Seq(Whole)
           /\ BareEach(scheme, values) \in Seq(Strings)
           /\ Contents(F[<<>>], EachLine(tag, values)) = F[BareEach(scheme, values)]
<1> DEFINE S == {values \in Seq(Strings) :
                   /\ EachLine(tag, values) \in Seq(Whole)
                   /\ BareEach(scheme, values) \in Seq(Strings)
                   /\ Contents(F[<<>>], EachLine(tag, values)) = F[BareEach(scheme, values)]}
<1>1. <<>> \in S
  <2>1. EachLine(tag, <<>>) = <<>> /\ BareEach(scheme, <<>>) = <<>>
    BY DEF EachLine, BareEach
  <2>2. <<>> \in Seq(Whole) /\ <<>> \in Seq(Strings)
    OBVIOUS
  <2>3. Contents(F[<<>>], <<>>) = F[<<>>]
    BY ContentsFollow
  <2> QED BY <2>1, <2>2, <2>3
<1>2. ASSUME NEW values \in Seq(Strings), NEW v \in Strings, values \in S
      PROVE  Append(values, v) \in S
  <2> DEFINE ls == EachLine(tag, values)
             e == BareEach(scheme, values)
             line == Line(tag, Escape(v))
             bare == Bare(Plain(v), scheme)
             longer == Append(values, v)
  <2>1. EachLine(tag, longer) = Append(ls, line) /\ BareEach(scheme, longer) = Append(e, bare)
    BY EachFollows
  <2>2. ls \in Seq(Whole) /\ e \in Seq(Strings) /\ Contents(F[<<>>], ls) = F[e]
    BY <1>2
  <2>3. line \in Whole
    BY EscapeUnbroken, LineWhole DEF LineTexts
  <2>4. bare \in Strings
    BY PlainFollows, BareText
  <2>5. ReadLine(F[e], line) = F[Append(e, bare)]
    BY <2>2
  <2>6. longer \in Seq(Strings)
    OBVIOUS
  <2> HIDE DEF ls, e, line, bare, longer
  <2>7. Append(ls, line) \in Seq(Whole) /\ Append(e, bare) \in Seq(Strings)
    BY <2>2, <2>3, <2>4
  <2>8. Contents(F[<<>>], Append(ls, line)) = F[Append(e, bare)]
    BY <2>2, <2>3, <2>5, ContentsFollow
  <2>9. longer \in S
    BY <2>1, <2>6, <2>7, <2>8
  <2> QED BY <2>9 DEF longer
<1> HIDE DEF S
<1>3. \A values \in Seq(Strings) : values \in S
  BY <1>1, <1>2, Parsing!AllBuilt
<1> QED BY <1>3 DEF S
-----------------------------------------------------------------------------
\* What a card was written from, and what is read from its heading.

\* build_vcard folds its lines one by one; the card is that, or none.
LEMMA WrittenCard ==
  \A k : BuildVcard(k) \subseteq {Writing!Loop(0, <<>>, CardLines(k))}
<1>1. ASSUME NEW k
      PROVE  BuildVcard(k) \subseteq {Writing!Loop(0, <<>>, CardLines(k))}
  <2> DEFINE lines == CardLines(k)
  <2>1. Writing!Loop(0, <<>>, lines)
          = Run(LAMBDA out, line : out \o Fold(line) \o <<"CR", "LF">>, <<>>, lines)
    BY Zenon DEF Run, Writing!Loop, WriteOn
  <2> QED BY <2>1, Zenon DEF BuildVcard, lines
<1> QED BY <1>1

\* What the names read are, whatever delimiters they hold.
FamilyRead(k) == Unescape(SplitAt(NameValue(k), ";")[1])
GivenRead(k) == Unescape(Part(SplitAt(NameValue(k), ";"), 2))
OrganizationRead(text) == Head(SplitAt(Plain(text), ";"))

\* Five lines are read one by one.
LEMMA FiveRead ==
  ASSUME NEW k, NEW a \in Whole, NEW b \in Whole, NEW c \in Whole, NEW d \in Whole,
         NEW e \in Whole
  PROVE  Contents(k, <<a, b, c, d, e>>) =
           ReadLine(ReadLine(ReadLine(ReadLine(ReadLine(k, a), b), c), d), e)
<1> DEFINE s1 == Append(<<>>, a)
           s2 == Append(s1, b)
           s3 == Append(s2, c)
           s4 == Append(s3, d)
<1>1. <<a, b, c, d, e>> = Append(s4, e)
  BY FiveElements
<1>2. /\ <<>> \in Seq(Whole) /\ s1 \in Seq(Whole) /\ s2 \in Seq(Whole) /\ s3 \in Seq(Whole)
      /\ s4 \in Seq(Whole)
  OBVIOUS
<1>3. Contents(k, <<>>) = k
  BY ContentsFollow
<1>4. \A lines \in Seq(Whole) : \A line \in Whole :
        Contents(k, Append(lines, line)) = ReadLine(Contents(k, lines), line)
  BY ContentsFollow
<1>5. Contents(k, s1) = ReadLine(k, a)
  BY <1>2, <1>3, <1>4
<1>6. Contents(k, s2) = ReadLine(ReadLine(k, a), b)
  BY <1>2, <1>4, <1>5, Zenon
<1>7. Contents(k, s3) = ReadLine(ReadLine(ReadLine(k, a), b), c)
  BY <1>2, <1>4, <1>6, Zenon
<1>8. Contents(k, s4) = ReadLine(ReadLine(ReadLine(ReadLine(k, a), b), c), d)
  BY <1>2, <1>4, <1>7, Zenon
<1>9. Contents(k, Append(s4, e))
        = ReadLine(ReadLine(ReadLine(ReadLine(ReadLine(k, a), b), c), d), e)
  BY <1>2, <1>4, <1>8, Zenon
<1> QED BY <1>1, <1>9, Zenon

\* What each property of a card puts into a contact.
LEMMA PropertyRead ==
  ASSUME NEW k, NEW v \in Strings
  PROVE  /\ ReadLine(k, Line("UID", Escape(v))) = [k EXCEPT !.uid = Plain(v)]
         /\ ReadLine(k, Line("FN", Escape(v))) = [k EXCEPT !.full_name = Plain(v)]
         /\ ReadLine(k, Line("EMAIL", Escape(v)))
              = [k EXCEPT !.emails = Append(@, Bare(Plain(v), "mailto:"))]
         /\ ReadLine(k, Line("TEL", Escape(v)))
              = [k EXCEPT !.phones = Append(@, Bare(Plain(v), "tel:"))]
         /\ ReadLine(k, Line("ORG", Escape(v)))
              = [k EXCEPT !.organization = Head(SplitAt(Plain(v), ";"))]
         /\ ReadLine(k, Line("TITLE", Escape(v))) = [k EXCEPT !.title = Plain(v)]
         /\ ReadLine(k, Line("NOTE", Escape(v))) = [k EXCEPT !.note = Plain(v)]
<1> DEFINE w == Escape(v)
           q == Plain(v)
           email == Bare(q, "mailto:")
           tel == Bare(q, "tel:")
           org == Head(SplitAt(q, ";"))
<1>1. Unescape(w) = q /\ w \in Strings
  BY UnescapeEscape, EscapeFollows
<1> HIDE DEF w, q
<1>2. ASSUME NEW tag \in Tags
      PROVE  ReadLine(k, Line(tag, w)) = Kept(k, tag, w)
  <2> DEFINE line == Line(tag, w)
  <2>1. line = Line(tag, w)
    OBVIOUS
  <2> HIDE DEF line
  <2>2. ReadLine(k, line) = Kept(k, tag, w)
    BY <1>1, <2>1, LineRead
  <2> QED BY <2>2 DEF line
<1>3. /\ "UID" \in Tags /\ "FN" \in Tags /\ "EMAIL" \in Tags /\ "TEL" \in Tags
      /\ "ORG" \in Tags /\ "TITLE" \in Tags /\ "NOTE" \in Tags
  BY DEF Tags
<1>4. /\ Kept(k, "UID", w) = [k EXCEPT !.uid = q]
      /\ Kept(k, "FN", w) = [k EXCEPT !.full_name = q]
      /\ Kept(k, "EMAIL", w) = [k EXCEPT !.emails = Append(@, email)]
      /\ Kept(k, "TEL", w) = [k EXCEPT !.phones = Append(@, tel)]
      /\ Kept(k, "ORG", w) = [k EXCEPT !.organization = org]
      /\ Kept(k, "TITLE", w) = [k EXCEPT !.title = q]
      /\ Kept(k, "NOTE", w) = [k EXCEPT !.note = q]
  BY <1>1 DEF Kept
<1> HIDE DEF email, tel, org
<1>5. ReadLine(k, Line("UID", w)) = [k EXCEPT !.uid = q]
  BY <1>2, <1>3, <1>4
<1>6. ReadLine(k, Line("FN", w)) = [k EXCEPT !.full_name = q]
  BY <1>2, <1>3, <1>4
<1>7. ReadLine(k, Line("EMAIL", w)) = [k EXCEPT !.emails = Append(@, email)]
  BY <1>2, <1>3, <1>4
<1>8. ReadLine(k, Line("TEL", w)) = [k EXCEPT !.phones = Append(@, tel)]
  BY <1>2, <1>3, <1>4
<1>9. ReadLine(k, Line("ORG", w)) = [k EXCEPT !.organization = org]
  BY <1>2, <1>3, <1>4
<1>10. ReadLine(k, Line("TITLE", w)) = [k EXCEPT !.title = q]
  BY <1>2, <1>3, <1>4
<1>11. ReadLine(k, Line("NOTE", w)) = [k EXCEPT !.note = q]
  BY <1>2, <1>3, <1>4
<1> QED BY <1>5, <1>6, <1>7, <1>8, <1>9, <1>10, <1>11, Zenon DEF w, q, email, tel, org

\* A line N holds the family name and the given name, split before they are unescaped.
LEMMA NameRead ==
  ASSUME NEW k, NEW name \in Strings
  PROVE  ReadLine(k, Line("N", name)) =
           [k EXCEPT !.family_name = Unescape(SplitAt(name, ";")[1]),
                     !.given_name = Unescape(Part(SplitAt(name, ";"), 2))]
<1> DEFINE line == Line("N", name)
<1>1. line = Line("N", name) /\ "N" \in Tags
  BY DEF Tags
<1> HIDE DEF line
<1>2. ReadLine(k, line) = Kept(k, "N", name)
  BY <1>1, LineRead
<1>3. Kept(k, "N", name) = [k EXCEPT !.family_name = Unescape(SplitAt(name, ";")[1]),
                                     !.given_name = Unescape(Part(SplitAt(name, ";"), 2))]
  BY DEF Kept
<1> QED BY <1>2, <1>3, Zenon DEF line

\* What is read from the five lines every card starts with.
LEMMA HeadingRead ==
  ASSUME NEW k \in ContactInput
  PROVE  /\ Heading(k) \in Seq(Whole)
         /\ Contents(NoFields, Heading(k)) =
              Fields(Plain(k.uid), Plain(k.full_name), FamilyRead(k), GivenRead(k),
                     <<>>, <<>>, <<>>, <<>>, <<>>)
<1> DEFINE begin == Line("BEGIN", <<"VCARD">>)
           version == Line("VERSION", <<"4.0">>)
           uid == Line("UID", Escape(k.uid))
           fn == Line("FN", Escape(k.full_name))
           n == Line("N", NameValue(k))
           x == FamilyRead(k)
           y == GivenRead(k)
           none == <<>>
           k1 == Fields(Plain(k.uid), none, none, none, none, none, none, none, none)
           k2 == Fields(Plain(k.uid), Plain(k.full_name), none, none, none, none, none, none, none)
           k3 == Fields(Plain(k.uid), Plain(k.full_name), x, y, none, none, none, none, none)
<1>1. k.uid \in Strings /\ k.full_name \in Strings
  BY DEF ContactInput
<1>2. <<"VCARD">> \in LineTexts /\ <<"4.0">> \in LineTexts
  <2>1. "VCARD" \in Unbroken /\ "4.0" \in Unbroken
    BY SymbolsAssumption DEF Unbroken
  <2> QED BY <2>1 DEF LineTexts
<1>3. \A s \in LineTexts : s \in Strings
  BY SeqMonotonic DEF LineTexts, Strings, Unbroken
<1>4. begin \in Whole /\ version \in Whole /\ uid \in Whole /\ fn \in Whole /\ n \in Whole
  <2>1. /\ "BEGIN" \in Tags /\ "VERSION" \in Tags /\ "UID" \in Tags /\ "FN" \in Tags
        /\ "N" \in Tags
    BY DEF Tags
  <2>2. /\ Escape(k.uid) \in LineTexts /\ Escape(k.full_name) \in LineTexts
        /\ NameValue(k) \in LineTexts
    BY <1>1, EscapeUnbroken, NameUnbroken DEF LineTexts
  <2> QED BY <1>2, <2>1, <2>2, LineWhole, Zenon
<1>5. Heading(k) = <<begin, version, uid, fn, n>>
  <2>1. <<"BEGIN", ":", "VCARD">> = begin /\ <<"VERSION", ":", "4.0">> = version
    BY ShortLine, Zenon
  <2> QED BY <2>1, Zenon DEF Heading, NameValue
<1>6. ReadLine(NoFields, begin) = NoFields /\ ReadLine(NoFields, version) = NoFields
  <2>1. <<"VCARD">> \in Strings /\ <<"4.0">> \in Strings
    BY <1>2, <1>3
  <2> QED BY <2>1, OtherRead, Zenon
<1>7. ReadLine(NoFields, uid) = k1
  <2>1. ReadLine(NoFields, uid) = [NoFields EXCEPT !.uid = Plain(k.uid)]
    BY <1>1, PropertyRead
  <2>2. [NoFields EXCEPT !.uid = Plain(k.uid)] = k1
    BY DEF NoFields, Fields
  <2> QED BY <2>1, <2>2
<1>8. ReadLine(k1, fn) = k2
  <2>1. ReadLine(k1, fn) = [k1 EXCEPT !.full_name = Plain(k.full_name)]
    <3> HIDE DEF k1
    <3> QED BY <1>1, PropertyRead
  <2>2. [k1 EXCEPT !.full_name = Plain(k.full_name)] = k2
    BY DEF Fields
  <2> QED BY <2>1, <2>2
<1>9. ReadLine(k2, n) = k3
  <2> DEFINE m == [k2 EXCEPT !.family_name = x]
  <2>1. NameValue(k) \in Strings
    BY <1>3, NameUnbroken
  <2>2. ReadLine(k2, n) = [k2 EXCEPT !.family_name = x, !.given_name = y]
    <3> HIDE DEF k2, m
    <3> QED BY <2>1, NameRead DEF FamilyRead, GivenRead
  <2>3. [k2 EXCEPT !.family_name = x, !.given_name = y] = [m EXCEPT !.given_name = y]
    BY Zenon
  <2> HIDE DEF x, y
  <2>4. m = Fields(Plain(k.uid), Plain(k.full_name), x, none, none, none, none, none, none)
    BY DEF Fields
  <2> HIDE DEF m, k2
  <2>5. [m EXCEPT !.given_name = y] = k3
    BY <2>4 DEF Fields
  <2> QED BY <2>2, <2>3, <2>5
<1> HIDE DEF begin, version, uid, fn, n, k1, k2, k3
<1>10. <<begin, version, uid, fn, n>> \in Seq(Whole)
  BY <1>4, FiveElements
<1>11. Contents(NoFields, <<begin, version, uid, fn, n>>) = k3
  <2>1. Contents(NoFields, <<begin, version, uid, fn, n>>) =
          ReadLine(ReadLine(ReadLine(ReadLine(ReadLine(NoFields, begin), version), uid), fn), n)
    BY <1>4, FiveRead
  <2> QED BY <1>6, <1>7, <1>8, <1>9, <2>1, Zenon
<1> QED BY <1>5, <1>10, <1>11, Zenon DEF k3
-----------------------------------------------------------------------------
\* The repeated properties.

\* Another email address, ...
LEMMA EmailAdded ==
  ASSUME NEW u, NEW f, NEW x, NEW y, NEW e, NEW none, NEW b, NEW k,
         k = Fields(u, f, x, y, e, none, none, none, none)
  PROVE  [k EXCEPT !.emails = Append(@, b)]
           = Fields(u, f, x, y, Append(e, b), none, none, none, none)
BY SMTT(30) DEF Fields

\* ... or telephone number.
LEMMA PhoneAdded ==
  ASSUME NEW u, NEW f, NEW x, NEW y, NEW e, NEW p, NEW none, NEW b, NEW k,
         k = Fields(u, f, x, y, e, p, none, none, none)
  PROVE  [k EXCEPT !.phones = Append(@, b)]
           = Fields(u, f, x, y, e, Append(p, b), none, none, none)
BY DEF Fields

\* The lines after the heading put their fields into the contact one by one.
LEMMA RepeatedRead ==
  ASSUME NEW u, NEW f, NEW x, NEW y, NEW emails \in Seq(Strings), NEW phones \in Seq(Strings)
  PROVE  /\ EachLine("EMAIL", emails) \in Seq(Whole) /\ EachLine("TEL", phones) \in Seq(Whole)
         /\ Contents(Fields(u, f, x, y, <<>>, <<>>, <<>>, <<>>, <<>>), EachLine("EMAIL", emails))
              = Fields(u, f, x, y, BareEach("mailto:", emails), <<>>, <<>>, <<>>, <<>>)
         /\ \A e : Contents(Fields(u, f, x, y, e, <<>>, <<>>, <<>>, <<>>), EachLine("TEL", phones))
                     = Fields(u, f, x, y, e, BareEach("tel:", phones), <<>>, <<>>, <<>>)
<1> DEFINE none == <<>>
           ReadSo(tag, scheme, F) ==
             \A values \in Seq(Strings) :
               /\ EachLine(tag, values) \in Seq(Whole)
               /\ BareEach(scheme, values) \in Seq(Strings)
               /\ Contents(F[none], EachLine(tag, values)) = F[BareEach(scheme, values)]
<1>1. "EMAIL" \in Tags /\ "TEL" \in Tags /\ none \in Seq(Strings)
  BY DEF Tags
<1>8. \A tag \in Tags : \A scheme, F :
        (\A e \in Seq(Strings) : \A v \in Strings :
           ReadLine(F[e], Line(tag, Escape(v))) = F[Append(e, Bare(Plain(v), scheme))])
        => ReadSo(tag, scheme, F)
  BY EachRead
<1> HIDE DEF none
<1>2. ASSUME NEW v \in Strings, NEW scheme
      PROVE  Bare(Plain(v), scheme) \in Strings
  BY PlainFollows, BareText
<1>3. ReadSo("EMAIL", "mailto:",
             [e \in Seq(Strings) |-> Fields(u, f, x, y, e, none, none, none, none)])
  <2> DEFINE F == [e \in Seq(Strings) |-> Fields(u, f, x, y, e, none, none, none, none)]
             scheme == "mailto:"
  <2>1. ASSUME NEW e \in Seq(Strings), NEW v \in Strings
        PROVE  ReadLine(F[e], Line("EMAIL", Escape(v))) = F[Append(e, Bare(Plain(v), scheme))]
    <3> DEFINE k == F[e]
               b == Bare(Plain(v), scheme)
    <3>1. ReadLine(k, Line("EMAIL", Escape(v))) = [k EXCEPT !.emails = Append(@, b)]
      <4> HIDE DEF k
      <4> QED BY PropertyRead
    <3>2. b \in Strings
      BY <1>2
    <3> HIDE DEF b
    <3>3. k = Fields(u, f, x, y, e, none, none, none, none)
      OBVIOUS
    <3>4. F[Append(e, b)] = Fields(u, f, x, y, Append(e, b), none, none, none, none)
      BY <3>2
    <3> HIDE DEF k, F
    <3>5. [k EXCEPT !.emails = Append(@, b)]
            = Fields(u, f, x, y, Append(e, b), none, none, none, none)
      BY <3>3, EmailAdded
    <3> QED BY <3>1, <3>4, <3>5, Zenon DEF k, b
  <2> HIDE DEF F
  <2>2. ReadSo("EMAIL", scheme, F)
    <3> HIDE DEF ReadSo
    <3> QED BY <1>1, <1>8, <2>1
  <2> QED BY <2>2 DEF F
<1>4. ASSUME NEW e
      PROVE  ReadSo("TEL", "tel:", [p \in Seq(Strings) |-> Fields(u, f, x, y, e, p, none, none, none)])
  <2> DEFINE F == [p \in Seq(Strings) |-> Fields(u, f, x, y, e, p, none, none, none)]
             scheme == "tel:"
  <2>1. ASSUME NEW p \in Seq(Strings), NEW v \in Strings
        PROVE  ReadLine(F[p], Line("TEL", Escape(v))) = F[Append(p, Bare(Plain(v), scheme))]
    <3> DEFINE k == F[p]
               b == Bare(Plain(v), scheme)
    <3>1. ReadLine(k, Line("TEL", Escape(v))) = [k EXCEPT !.phones = Append(@, b)]
      <4> HIDE DEF k
      <4> QED BY PropertyRead
    <3>2. b \in Strings
      BY <1>2
    <3> HIDE DEF b
    <3>3. k = Fields(u, f, x, y, e, p, none, none, none)
      OBVIOUS
    <3>4. F[Append(p, b)] = Fields(u, f, x, y, e, Append(p, b), none, none, none)
      BY <3>2
    <3> HIDE DEF k, F
    <3>5. [k EXCEPT !.phones = Append(@, b)]
            = Fields(u, f, x, y, e, Append(p, b), none, none, none)
      BY <3>3, PhoneAdded
    <3> QED BY <3>1, <3>4, <3>5, Zenon DEF k, b
  <2> HIDE DEF F
  <2>2. ReadSo("TEL", scheme, F)
    <3> HIDE DEF ReadSo
    <3> QED BY <1>1, <1>8, <2>1
  <2> QED BY <2>2 DEF F
<1>5. /\ EachLine("EMAIL", emails) \in Seq(Whole)
      /\ Contents(Fields(u, f, x, y, none, none, none, none, none), EachLine("EMAIL", emails))
           = Fields(u, f, x, y, BareEach("mailto:", emails), none, none, none, none)
  <2> DEFINE F == [e \in Seq(Strings) |-> Fields(u, f, x, y, e, none, none, none, none)]
  <2>1. BareEach("mailto:", emails) \in Seq(Strings)
    BY <1>3
  <2>2. F[none] = Fields(u, f, x, y, none, none, none, none, none)
        /\ F[BareEach("mailto:", emails)]
             = Fields(u, f, x, y, BareEach("mailto:", emails), none, none, none, none)
    BY <1>1, <2>1
  <2> HIDE DEF F
  <2>3. ReadSo("EMAIL", "mailto:", F)
    BY <1>3 DEF F
  <2> QED BY <2>2, <2>3, Zenon
<1>6. EachLine("TEL", phones) \in Seq(Whole)
  BY <1>4
<1>7. ASSUME NEW e
      PROVE  Contents(Fields(u, f, x, y, e, none, none, none, none), EachLine("TEL", phones))
                     = Fields(u, f, x, y, e, BareEach("tel:", phones), none, none, none)
  <2> DEFINE F == [p \in Seq(Strings) |-> Fields(u, f, x, y, e, p, none, none, none)]
  <2>1. BareEach("tel:", phones) \in Seq(Strings)
    BY <1>4
  <2>2. F[none] = Fields(u, f, x, y, e, none, none, none, none)
        /\ F[BareEach("tel:", phones)]
             = Fields(u, f, x, y, e, BareEach("tel:", phones), none, none, none)
    BY <1>1, <2>1
  <2> HIDE DEF F
  <2>3. ReadSo("TEL", "tel:", F)
    BY <1>4 DEF F
  <2> QED BY <2>2, <2>3, Zenon
<1> QED BY <1>5, <1>6, <1>7, Zenon DEF none
-----------------------------------------------------------------------------
\* The optional ones, and the whole contact.

\* The line of an optional field, when it has one.
LEMMA OneLineWhole ==
  ASSUME NEW tag \in Tags, NEW value \in Strings
  PROVE  OneLine(tag, value) \in Seq(Whole)
<1>1. Line(tag, Escape(value)) \in Whole
  BY EscapeUnbroken, LineWhole DEF LineTexts
<1> QED BY <1>1 DEF OneLine

\* What is read from the line of the organization, if any, ...
LEMMA OrganizationLine ==
  ASSUME NEW u, NEW f, NEW x, NEW y, NEW e, NEW p, NEW v, NEW k, v \in Strings,
         k = Fields(u, f, x, y, e, p, <<>>, <<>>, <<>>)
  PROVE  Contents(k, OneLine("ORG", v))
           = Fields(u, f, x, y, e, p, OrganizationRead(v), <<>>, <<>>)
<1> DEFINE none == <<>>
           q == OrganizationRead(v)
           m == Fields(u, f, x, y, e, p, q, none, none)
<1>1. ReadLine(k, Line("ORG", Escape(v))) = [k EXCEPT !.organization = q]
  BY PropertyRead DEF OrganizationRead
<1>2. v = none => q = none
  <2>1. SplitAt(none, ";") = <<none>>
    BY SplitFollows
  <2>2. Plain(none) = none
    BY PlainFollows
  <2>3. Head(<<none>>) = none
    BY OneElement, Zenon
  <2>4. v = none => q = Head(SplitAt(Plain(none), ";"))
    BY DEF OrganizationRead
  <2> QED BY <2>1, <2>2, <2>3, <2>4, Zenon
<1>3. "ORG" \in Tags
  BY DEF Tags
<1>4. k = Fields(u, f, x, y, e, p, none, none, none)
  OBVIOUS
<1> HIDE DEF q, none
<1>5. [k EXCEPT !.organization = q] = m
  BY <1>4 DEF Fields
<1>6. v = none => m = k
  BY <1>2, <1>4
<1> HIDE DEF m
<1>7. Contents(k, OneLine("ORG", v)) = m
  BY <1>1, <1>3, <1>5, <1>6, OneRead DEF none
<1> QED BY <1>7, Zenon DEF m, q, none

\* ... from that of the title, ...
LEMMA TitleLine ==
  ASSUME NEW u, NEW f, NEW x, NEW y, NEW e, NEW p, NEW o, NEW v, NEW k, v \in Strings,
         k = Fields(u, f, x, y, e, p, o, <<>>, <<>>)
  PROVE  Contents(k, OneLine("TITLE", v)) = Fields(u, f, x, y, e, p, o, Plain(v), <<>>)
<1> DEFINE none == <<>>
           q == Plain(v)
           m == Fields(u, f, x, y, e, p, o, q, none)
<1>1. ReadLine(k, Line("TITLE", Escape(v))) = [k EXCEPT !.title = q]
  BY PropertyRead
<1>2. v = none => q = none
  BY PlainFollows
<1>3. "TITLE" \in Tags
  BY DEF Tags
<1>4. k = Fields(u, f, x, y, e, p, o, none, none)
  OBVIOUS
<1> HIDE DEF q, none
<1>5. [k EXCEPT !.title = q] = m
  BY <1>4 DEF Fields
<1>6. v = none => m = k
  BY <1>2, <1>4
<1> HIDE DEF m
<1>7. Contents(k, OneLine("TITLE", v)) = m
  BY <1>1, <1>3, <1>5, <1>6, OneRead DEF none
<1> QED BY <1>7, Zenon DEF m, q, none

\* ... and from that of the note.
LEMMA NoteLine ==
  ASSUME NEW u, NEW f, NEW x, NEW y, NEW e, NEW p, NEW o, NEW t, NEW v, NEW k, v \in Strings,
         k = Fields(u, f, x, y, e, p, o, t, <<>>)
  PROVE  Contents(k, OneLine("NOTE", v)) = Fields(u, f, x, y, e, p, o, t, Plain(v))
<1> DEFINE none == <<>>
           q == Plain(v)
           m == Fields(u, f, x, y, e, p, o, t, q)
<1>1. ReadLine(k, Line("NOTE", Escape(v))) = [k EXCEPT !.note = q]
  BY PropertyRead
<1>2. v = none => q = none
  BY PlainFollows
<1>3. "NOTE" \in Tags
  BY DEF Tags
<1>4. k = Fields(u, f, x, y, e, p, o, t, none)
  OBVIOUS
<1> HIDE DEF q, none
<1>5. [k EXCEPT !.note = q] = m
  BY <1>4 DEF Fields
<1>6. v = none => m = k
  BY <1>2, <1>4
<1> HIDE DEF m
<1>7. Contents(k, OneLine("NOTE", v)) = m
  BY <1>1, <1>3, <1>5, <1>6, OneRead DEF none
<1> QED BY <1>7, Zenon DEF m, q

\* A card read back, for every contact it can be written from.
LEMMA CardRead ==
  ASSUME NEW k \in ContactInput, NEW card \in BuildVcard(k)
  PROVE  ParseVcard(card) =
           Fields(Plain(k.uid), Plain(k.full_name), FamilyRead(k), GivenRead(k),
                  BareEach("mailto:", k.emails), BareEach("tel:", k.phones),
                  OrganizationRead(k.organization), Plain(k.title), Plain(k.note))
<1> DEFINE lines == CardLines(k)
           a == Heading(k)
           b == EachLine("EMAIL", k.emails)
           c == EachLine("TEL", k.phones)
           d == OneLine("ORG", k.organization)
           e == OneLine("TITLE", k.title)
           f == OneLine("NOTE", k.note)
           end == <<"END", ":", "VCARD">>
           result == Fields(Plain(k.uid), Plain(k.full_name), FamilyRead(k), GivenRead(k),
                            BareEach("mailto:", k.emails), BareEach("tel:", k.phones),
                            OrganizationRead(k.organization), Plain(k.title), Plain(k.note))
<1>1. /\ k.emails \in Seq(Strings) /\ k.phones \in Seq(Strings)
      /\ k.organization \in Strings /\ k.title \in Strings /\ k.note \in Strings
  BY DEF ContactInput
<1>2. ParseVcard(card) = ReadLine(Contents(NoFields, lines), <<>>)
  <2>1. card = Writing!Loop(0, <<>>, lines)
    BY WrittenCard
  <2>2. lines \in Seq(Whole) /\ <<>> \in Whole
    <3>1. <<>> \in LineTexts
      BY DEF LineTexts
    <3>2. OnItsOwn(<<>>)
      BY DEF OnItsOwn
    <3> QED BY <3>1, <3>2, CardLinesWhole DEF Whole
  <2>3. Unfold(card) = Append(lines, <<>>)
    BY <2>1, <2>2, CardUnfolds
  <2>4. ParseVcard(card) = Contents(NoFields, Append(lines, <<>>))
    BY <2>3, ContentsFollow
  <2> HIDE DEF lines
  <2>5. Contents(NoFields, Append(lines, <<>>)) = ReadLine(Contents(NoFields, lines), <<>>)
    BY <2>2, ContentsFollow
  <2> QED BY <2>4, <2>5
<1>3. lines = a \o b \o c \o d \o e \o f \o <<end>>
  BY LinesByPart
<1>4. /\ a \in Seq(Whole) /\ b \in Seq(Whole) /\ c \in Seq(Whole) /\ d \in Seq(Whole)
      /\ e \in Seq(Whole) /\ f \in Seq(Whole) /\ end \in Whole
  <2>1. a \in Seq(Whole)
    BY HeadingRead
  <2>2. b \in Seq(Whole) /\ c \in Seq(Whole)
    BY <1>1, RepeatedRead
  <2>3. d \in Seq(Whole) /\ e \in Seq(Whole) /\ f \in Seq(Whole)
    BY <1>1, OneLineWhole DEF Tags
  <2>4. end \in Whole
    <3>1. end = Line("END", <<"VCARD">>)
      BY ShortLine, Zenon
    <3>2. "VCARD" \in Unbroken /\ "END" \in Tags
      BY SymbolsAssumption DEF Unbroken, Tags
    <3>3. <<"VCARD">> \in LineTexts
      BY <3>2 DEF LineTexts
    <3> QED BY <3>1, <3>2, <3>3, LineWhole
  <2> QED BY <2>1, <2>2, <2>3, <2>4
<1> DEFINE ka == Contents(NoFields, a)
           kb == Contents(ka, b)
           kc == Contents(kb, c)
           kf == Contents(Contents(Contents(kc, d), e), f)
<1>5. kf = result
  <2> DEFINE none == <<>>
             u == Plain(k.uid)
             n == Plain(k.full_name)
             x == FamilyRead(k)
             y == GivenRead(k)
             es == BareEach("mailto:", k.emails)
             ps == BareEach("tel:", k.phones)
  <2>1. ka = Fields(u, n, x, y, <<>>, <<>>, <<>>, <<>>, <<>>)
    BY HeadingRead
  <2> HIDE DEF ka
  <2>2. kb = Fields(u, n, x, y, es, <<>>, <<>>, <<>>, <<>>)
    BY <1>1, <2>1, RepeatedRead
  <2> HIDE DEF kb
  <2>3. kc = Fields(u, n, x, y, es, ps, <<>>, <<>>, <<>>)
    BY <1>1, <2>2, RepeatedRead
  <2> HIDE DEF kc
  <2>4. kf = Fields(u, n, x, y, es, ps, OrganizationRead(k.organization),
                    Plain(k.title), Plain(k.note))
    <3> DEFINE o == OrganizationRead(k.organization)
               t == Plain(k.title)
               q == Plain(k.note)
               kd == Contents(kc, d)
               ke == Contents(kd, e)
    <3> HIDE DEF a, b, c, end, result, lines, u, n, x, y, es, ps
    <3>1. kd = Fields(u, n, x, y, es, ps, o, <<>>, <<>>)
      BY <1>1, <2>3, OrganizationLine
    <3> HIDE DEF kd, o
    <3>2. ke = Fields(u, n, x, y, es, ps, o, t, <<>>)
      BY <1>1, <3>1, TitleLine
    <3> HIDE DEF ke, t
    <3>3. Contents(ke, f) = Fields(u, n, x, y, es, ps, o, t, q)
      BY <1>1, <3>2, NoteLine
    <3> QED BY <3>3, Zenon DEF ke, kd, o, t
  <2> QED BY <2>4, Zenon
<1>6. Contents(NoFields, lines) = ReadLine(kf, end)
  <2> HIDE DEF a, b, c, d, e, f, end, lines
  <2>1. \A r : \A s, t \in Seq(Whole) : Contents(r, s \o t) = Contents(Contents(r, s), t)
    BY ContentsFollow
  <2>2. \A s, t \in Seq(Whole) : s \o t \in Seq(Whole)
    OBVIOUS
  <2> DEFINE ab == a \o b
             ac == ab \o c
             ad == ac \o d
             ae == ad \o e
             af == ae \o f
  <2>3. ab \in Seq(Whole) /\ Contents(NoFields, ab) = kb
    BY <1>4, <2>1, <2>2
  <2> HIDE DEF ab
  <2>4. ac \in Seq(Whole) /\ Contents(NoFields, ac) = kc
    BY <1>4, <2>1, <2>2, <2>3
  <2> HIDE DEF ac
  <2>5. ad \in Seq(Whole) /\ Contents(NoFields, ad) = Contents(kc, d)
    BY <1>4, <2>1, <2>2, <2>4
  <2> HIDE DEF ad
  <2>6. ae \in Seq(Whole) /\ Contents(NoFields, ae) = Contents(Contents(kc, d), e)
    BY <1>4, <2>1, <2>2, <2>5
  <2> HIDE DEF ae
  <2>7. af \in Seq(Whole) /\ Contents(NoFields, af) = kf
    BY <1>4, <2>1, <2>2, <2>6
  <2> HIDE DEF af, kf
  <2>8. lines = Append(af, end)
    <3>1. af \o <<end>> = Append(af, end)
      BY <1>4, <2>7
    <3> QED BY <1>3, <3>1 DEF af, ae, ad, ac, ab
  <2> QED BY <1>4, <2>7, <2>8, ContentsFollow
<1>7. ReadLine(kf, end) = kf
  <2> HIDE DEF kf
  <2>1. end = Line("END", <<"VCARD">>)
    BY ShortLine, Zenon
  <2>2. <<"VCARD">> \in Strings
    <3>1. "VCARD" \in Symbols
      BY SymbolsAssumption
    <3> QED BY <3>1 DEF Strings
  <2> QED BY <2>1, <2>2, OtherRead, Zenon
<1> HIDE DEF kf, result, lines
<1> QED BY <1>2, <1>5, <1>6, <1>7, EmptyRead DEF result
-----------------------------------------------------------------------------
\* Fields that are split at `;'.

\* A sequence without some element.
LEMMA NoneIn ==
  ASSUME NEW T, NEW at, NEW s \in Seq(T), \A i \in 1..Len(s) : s[i] # at
  PROVE  s \in Seq(T \ {at})
OBVIOUS

\* A text that Contains no delimiter.
LEMMA Undelimited ==
  ASSUME NEW s \in Strings, ~Contains(s, ";")
  PROVE  s \in Seq(Symbols \ {";"})
BY NoneIn DEF Contains, Strings

\* Fields that are split at `;' are read whole when they hold none.
LEMMA StructuredRead ==
  ASSUME NEW k \in ContactInput, ~Contains(k.family_name, ";"), ~Contains(k.given_name, ";"),
         ~Contains(k.organization, ";")
  PROVE  /\ FamilyRead(k) = Plain(k.family_name) /\ GivenRead(k) = Plain(k.given_name)
         /\ OrganizationRead(k.organization) = Plain(k.organization)
<1> DEFINE at == ";"
           s == k.family_name
           t == k.given_name
           o == k.organization
           T == Symbols \ {at}
<1>1. s \in Strings /\ t \in Strings /\ o \in Strings
  BY DEF ContactInput
<1>2. s \in Seq(T) /\ t \in Seq(T) /\ o \in Seq(T)
  BY <1>1, Undelimited
<1>3. FamilyRead(k) = Plain(s) /\ GivenRead(k) = Plain(t)
  <2> DEFINE e == Escape(s)
             g == Escape(t)
             parts == SplitAt(e \o <<at>> \o g \o <<at, at, at>>, at)
  <2>1. e \in Seq(T) /\ g \in Seq(T) /\ at \in Symbols
    BY <1>2, EscapeUndelimited, SymbolsAssumption
  <2>2. parts[1] = e /\ Part(parts, 2) = g
    <3> HIDE DEF at, e, g
    <3> QED BY <2>1, NameSplits
  <2>3. FamilyRead(k) = Unescape(parts[1]) /\ GivenRead(k) = Unescape(Part(parts, 2))
    BY Zenon DEF FamilyRead, GivenRead, NameValue
  <2> HIDE DEF parts
  <2>4. FamilyRead(k) = Unescape(e) /\ GivenRead(k) = Unescape(g)
    BY <2>2, <2>3
  <2> QED BY <1>1, <2>4, UnescapeEscape
<1>4. OrganizationRead(o) = Plain(o)
  <2> DEFINE q == Plain(o)
             cr == "CR"
  <2>1. q = Replace(o, cr, <<>>)
    BY Zenon DEF Plain
  <2> HIDE DEF at, cr, q, T
  <2>2. q \in Seq(T)
    <3>1. <<>> \in Seq(T)
      BY EmptySeq
    <3>2. T \ {cr} \subseteq T
      BY Zenon
    <3> QED BY <1>2, <2>1, <3>1, <3>2, ReplaceLeaves
  <2>3. SplitAt(q, at) = <<q>> /\ Head(<<q>>) = q
    BY <2>2, SplitNone, OneElement DEF T
  <2> QED BY <2>3, Zenon DEF OrganizationRead, q, at
<1> QED BY <1>3, <1>4
-----------------------------------------------------------------------------
\* The card is the given contact's.
CardWritten == code = "card" => given \in Inputs /\ answer \subseteq BuildVcard(given)

\* What write tools call build_vcard with, and what it answers.
LEMMA CardIsWritten ==
  /\ Init => CardWritten
  /\ CardWritten /\ [Next]_vars => CardWritten'
<1>1. Init => CardWritten
  BY DEF Init, CardWritten
<1>2. ASSUME CardWritten, [Next]_vars PROVE CardWritten'
  <2>1. CASE WriteCard
    <3>1. PICK k \in Inputs :
            Call("card", k, IF ValidInput(k) THEN BuildVcard(k) ELSE {})
      BY <2>1, Zenon DEF WriteCard
    <3>2. given' = k /\ answer' = IF ValidInput(k) THEN BuildVcard(k) ELSE {}
      BY <3>1, Zenon DEF Call
    <3>3. answer' \subseteq BuildVcard(k)
      BY <3>2, Zenon
    <3> QED BY <3>2, <3>3, Zenon DEF CardWritten
  <2>2. CASE \/ ListBirthdays \/ ReadCard \/ RegisterClient \/ ReadMultistatus
            \/ SignIn \/ PresentToken
    <3>1. code' # "card"
      BY <2>2 DEF ListBirthdays, ReadCard, RegisterClient, ReadMultistatus, SignIn,
                 PresentToken, Call
    <3> QED BY <3>1 DEF CardWritten
  <2>3. CASE UNCHANGED vars
    BY <1>2, <2>3 DEF CardWritten, vars
  <2> QED BY <1>2, <2>1, <2>2, <2>3 DEF Next
<1> QED BY <1>1, <1>2

\* build_vcard: whatever the contact, no physical line of its card is longer
\* than the folding width.
THEOREM CardsFit == Spec => []LinesFit
<1>1. CardWritten => LinesFit
  <2> SUFFICES ASSUME CardWritten, code = "card", NEW card \in answer,
                      NEW line \in ToSet(SplitAt(Plain(card), "LF"))
               PROVE  Bytes(line) <= FoldWidth
    BY Zenon DEF LinesFit
  <2>1. given \in ContactInput /\ card \in BuildVcard(given)
    BY PureCodeAssumption, Zenon DEF CardWritten
  <2>2. Fits(card, FoldWidth)
    BY <2>1, CardFits, Zenon
  <2>3. PICK i \in DOMAIN LinesOf(card) : line = LinesOf(card)[i]
    BY Zenon DEF ToSet, LinesOf
  <2> QED BY <2>2, <2>3, Zenon DEF Fits
<1> QED BY <1>1, CardIsWritten, PTL DEF Spec

\* parse_vcard: whatever the contact, what is read back from its card is what
\* was written, but for the carriage returns and the schemes of URIs.
THEOREM CardsReadBack == Spec => []CardReadsBack
<1>1. Init => CardReadsBack
  BY DEF Init, CardReadsBack
<1>2. ASSUME CardWritten, CardReadsBack, [Next]_vars PROVE CardReadsBack'
  <2>1. CASE ReadCard
    <3>1. given' = given /\ given \in ContactInput
      BY <1>2, <2>1, PureCodeAssumption, Zenon DEF ReadCard, CardWritten
    <3>2. SUFFICES ASSUME NEW r \in answer'
                   PROVE  /\ \A f \in {"uid", "full_name", "title", "note"} :
                               r[f] = Plain(given[f])
                          /\ r.emails = [i \in DOMAIN given.emails |->
                                           Bare(Plain(given.emails[i]), "mailto:")]
                          /\ r.phones = [i \in DOMAIN given.phones |->
                                           Bare(Plain(given.phones[i]), "tel:")]
                          /\ (\A f \in Structured : ~Contains(given[f], ";")) =>
                               \A f \in Structured : r[f] = Plain(given[f])
      BY <3>1, Zenon DEF CardReadsBack
    <3>3. PICK card \in BuildVcard(given) : r = ParseVcard(card)
      BY <1>2, <2>1, <3>2, Zenon DEF ReadCard, CardWritten
    <3>4. r = Fields(Plain(given.uid), Plain(given.full_name), FamilyRead(given),
                     GivenRead(given), BareEach("mailto:", given.emails),
                     BareEach("tel:", given.phones),
                     OrganizationRead(given.organization), Plain(given.title),
                     Plain(given.note))
      BY <3>1, <3>3, CardRead, Zenon
    <3>5. /\ r.uid = Plain(given.uid) /\ r.full_name = Plain(given.full_name)
          /\ r.title = Plain(given.title) /\ r.note = Plain(given.note)
          /\ r.emails = BareEach("mailto:", given.emails)
          /\ r.phones = BareEach("tel:", given.phones)
          /\ r.family_name = FamilyRead(given) /\ r.given_name = GivenRead(given)
          /\ r.organization = OrganizationRead(given.organization)
      BY <3>4 DEF Fields
    <3>6. ASSUME \A f \in Structured : ~Contains(given[f], ";")
          PROVE  \A f \in Structured : r[f] = Plain(given[f])
      <4>1. /\ ~Contains(given.family_name, ";") /\ ~Contains(given.given_name, ";")
            /\ ~Contains(given.organization, ";")
        BY <3>6, Zenon DEF Structured
      <4>2. /\ FamilyRead(given) = Plain(given.family_name)
            /\ GivenRead(given) = Plain(given.given_name)
            /\ OrganizationRead(given.organization) = Plain(given.organization)
        BY <3>1, <4>1, StructuredRead, Zenon
      <4> QED BY <3>5, <4>2, Zenon DEF Structured
    <3> QED BY <3>5, <3>6, Zenon DEF BareEach
  <2>2. CASE \/ ListBirthdays \/ WriteCard \/ RegisterClient \/ ReadMultistatus
            \/ SignIn \/ PresentToken
    <3>1. code' # "contact"
      BY <2>2 DEF ListBirthdays, WriteCard, RegisterClient, ReadMultistatus, SignIn,
                 PresentToken, Call
    <3> QED BY <3>1 DEF CardReadsBack
  <2>3. CASE UNCHANGED vars
    BY <1>2, <2>3 DEF CardReadsBack, vars
  <2> QED BY <1>2, <2>1, <2>2, <2>3 DEF Next
<1> QED BY <1>1, <1>2, CardIsWritten, PTL DEF Spec
=============================================================================
