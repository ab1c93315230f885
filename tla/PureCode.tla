------------------------------ MODULE PureCode ------------------------------
(***************************************************************************)
(* The parts of the program that compute an answer from their arguments    *)
(* alone: birthdays, vCard text, redirect URIs, multistatus XML, and the   *)
(* configured URLs and audiences.  A behaviour is one call of one of them, *)
(* on an argument taken from a set; a card that was built is then read     *)
(* back, and a sign-in that was sent to Logto comes back as a token.  The  *)
(* properties compare the answer with a definition written from what the   *)
(* code promises, not from how it computes it.                             *)
(***************************************************************************)
EXTENDS Birthday, VCardText, Redirects, Multistatus, Audiences

CONSTANTS
  AddressBooks,   \* sequences of contacts, as upcoming_birthdays meets them
  Dates,          \* reference dates
  Windows,        \* numbers of days asked for
  Inputs,         \* contacts the write tools are given
  AllowLists,     \* sets of entries an operator may list
  Asked,          \* sets of redirect URIs a client may register
  Documents,      \* multistatus documents, see Events
  Environments,   \* the URLs of a deployment's environment
  Parameters      \* what a client sends to /authorize or /token

Url == Seq(STRING)
Property == [name : STRING \ {"response", "addressbook"},
             inner : {"none", "addressbook", "href"}, text : Seq(STRING)]
Response == [href : Seq(STRING), props : Seq(Property)]
ContactInput == [uid : Strings, full_name : Strings, given_name : Strings,
                 family_name : Strings, emails : Seq(Strings), phones : Seq(Strings),
                 organization : Strings, title : Strings, note : Strings]
Contact == [href : Nat, name : Nat,
            bday : SUBSET [dashed : BOOLEAN, digits : Seq(0..9)]]

\* A contact has its own href, and one BDAY at most.
ASSUME BirthdaysAssumption ==
  /\ \A book \in AddressBooks :
       /\ book \in Seq(Contact)
       /\ \A i \in DOMAIN book : \A v, w \in book[i].bday : v = w
       /\ \A i, j \in DOMAIN book : book[i].href = book[j].href => i = j
  /\ \A today \in Dates :
       /\ today \in [year : Nat, month : 1..12, day : 1..31]
       /\ IsDate(today.year, today.month, today.day)
  /\ Windows \subseteq Nat

\* A response has each property once, and only properties whose value is not
\* text have elements in them.
ASSUME DocumentsAssumption ==
  \A document \in Documents :
    /\ document \in Seq(Response)
    /\ \A i \in DOMAIN document : \A j, k \in DOMAIN document[i].props :
         LET p == document[i].props[j]
         IN  /\ p.name = document[i].props[k].name => j = k
             /\ p.inner # "none" => p.name \notin DOMAIN FieldOf

ASSUME PureCodeAssumption ==
  /\ Inputs \subseteq ContactInput
  /\ AllowLists \subseteq SUBSET Uris /\ Asked \subseteq SUBSET Uris
  /\ Environments \subseteq [resource : Url, server : Url, audience : Url]
  /\ Parameters \subseteq Seq([key : STRING, value : Url])

VARIABLES
  code,     \* what was called
  given,    \* its argument
  answer    \* {} for an error or None, else what it returned in a set

vars == <<code, given, answer>>

Init == code = "none" /\ given = {} /\ answer = {}
-----------------------------------------------------------------------------
Element(name, inside) ==
  <<[kind |-> "start", name |-> name]>> \o inside \o <<[kind |-> "end", name |-> name]>>

Texts(texts) == [i \in DOMAIN texts |-> [kind |-> "text", name |-> texts[i]]]

\* A property holds text, or an element with text, or an empty element.
PropertyEvents(p) ==
  Element(p.name,
    CASE p.inner = "none" -> Texts(p.text)
      [] p.inner = "addressbook" -> <<[kind |-> "empty", name |-> "addressbook"]>>
      [] OTHER -> Element(p.inner, Texts(p.text)))

ResponseEvents(r) ==
  Element("response",
    Element("href", Texts(r.href))
    \o Element("propstat",
         Element("prop", Run(LAMBDA out, p : out \o PropertyEvents(p), <<>>, r.props))
         \o Element("status", Texts(<<"x">>))))

\* The events of a document: a sequence of responses.
Events(document) ==
  Element("multistatus", Run(LAMBDA out, r : out \o ResponseEvents(r), <<>>, document))
-----------------------------------------------------------------------------
Call(f, argument, result) ==
  /\ code = "none"
  /\ code' = f /\ given' = argument /\ answer' = result

ListBirthdays == \E book \in AddressBooks, today \in Dates, days \in Windows :
  Call("birthdays", [book |-> book, today |-> today, days |-> days],
       UpcomingBirthdays(book, today, days))

\* create_contact and update_contact turn the contact into a card, ...
WriteCard == \E k \in Inputs :
  Call("card", k, IF ValidInput(k) THEN BuildVcard(k) ELSE {})

\* ... and the tools that read contacts take it apart.
ReadCard ==
  /\ code = "card" /\ answer # {}
  /\ code' = "contact"
  /\ answer' = {ParseVcard(card) : card \in answer}
  /\ UNCHANGED given

\* The list is empty when its variable is unset; the server does not start
\* with one that is refused.
RegisterClient ==
  \E entries \in AllowLists, asked \in Asked, configured \in BOOLEAN :
    /\ entries = {} \/ ParseAllowlist(entries) # {}
    /\ Call("register",
            [entries |-> entries, asked |-> asked, configured |-> configured],
            {Register(configured, ParseAllowlist(entries), asked)})

\* The document may end early, or be garbled at some event.
ReadMultistatus == \E document \in Documents, garbled \in BOOLEAN :
  LET events == Events(document)
  IN  \E cut \in 0..Len(events) :
        LET read == SubSeq(events, 1, cut)
        IN  Call("multistatus",
                 [document |-> document, cut |-> cut, garbled |-> garbled],
                 ParseMultistatus(IF garbled THEN Append(read, [kind |-> "garbled"])
                                  ELSE read))

\* authorize and token send a client's parameters on to Logto.
SignIn == \E env \in Environments, pairs \in Parameters : \E c \in FromEnv(env) :
  Call("sign_in", [config |-> c, pairs |-> pairs],
       {ApplyDavResource(pairs, c.stalwart_audience)})

\* Logto issues a token for a resource it was asked for; some clients have it
\* put the advertised resource in `aud' instead.  validate_token looks it up.
PresentToken ==
  /\ code = "sign_in"
  /\ code' = "token"
  /\ \E pairs \in answer : \E i \in DOMAIN pairs :
       /\ pairs[i].key = "resource"
       /\ \E aud \in {pairs[i].value, ProtectedResource(given.config).resource} :
            answer' = {aud} \cap AcceptedTokenAudiences(given.config)
  /\ UNCHANGED given

Next ==
  \/ ListBirthdays \/ WriteCard \/ ReadCard \/ RegisterClient \/ ReadMultistatus
  \/ SignIn \/ PresentToken

Spec == Init /\ [][Next]_vars
-----------------------------------------------------------------------------
\* A year's anniversary of a birthday: the day after 28 February for one on
\* 29 February, leap year or not.
Anniversary(b, y) ==
  IF b.month = 2 /\ b.day = 29 THEN DayNumber(y, 2, 28) + 1
  ELSE DayNumber(y, b.month, b.day)

\* The first anniversary from a day on, in the birth year or later, as
\* <<days away, year>>.
Nearest(b, today) ==
  LET t == DayNumber(today.year, today.month, today.day)
      ahead == {<<Anniversary(b, y) - t, y>> :
                  y \in {y \in (today.year - 1)..(today.year + 9) :
                           y >= b.year /\ Anniversary(b, y) >= t}}
  IN  {a \in ahead : \A other \in ahead : a[1] <= other[1]}

\* The number four digits make, from one on.
Number(digits, i) ==
  1000 * digits[i] + 100 * digits[i + 1] + 10 * digits[i + 2] + digits[i + 3]

\* The birthday a contact has: a BDAY of four or eight digits, the way they
\* are written, that is a date.
BirthdayOf(contact) ==
  LET dated(n, year) ==
        {b \in {[year |-> year, month |-> n \div 100, day |-> n % 100]} :
           IsDate(IF year = NoYear THEN 2024 ELSE year, b.month, b.day)}
  IN  (UNION {dated(Number(v.digits, 1), NoYear) :
                v \in {v \in contact.bday : v.dashed /\ Len(v.digits) = 4}})
      \cup
      (UNION {dated(Number(v.digits, 5), Number(v.digits, 1)) :
                v \in {v \in contact.bday : ~v.dashed /\ Len(v.digits) = 8}})

\* What should be listed of a contact.
Due(contact, today, days) ==
  UNION {{[href |-> contact.href, name |-> contact.name, days |-> a[1],
           turning |-> IF b.year = NoYear THEN {} ELSE {a[2] - b.year}] :
            a \in {a \in Nearest(b, today) : a[1] <= days}} : b \in BirthdayOf(contact)}

\* upcoming_birthdays lists each contact once whose next birthday (29
\* February on 1 March in a common year, never before the year of birth) is
\* at most `days' away, today and the last day included, with the age it
\* brings, sooner first; and counts the contacts whose BDAY is no date.
BirthdaysInWindow ==
  code = "birthdays" /\ given.days \in 1..MaxBirthdayDays =>
    \E r \in answer :
      /\ ToSet(r.birthdays) =
           UNION {Due(given.book[i], given.today, given.days) : i \in DOMAIN given.book}
      /\ Len(r.birthdays) = Cardinality(ToSet(r.birthdays))
      /\ \A i, j \in DOMAIN r.birthdays :
           i < j => r.birthdays[i].days <= r.birthdays[j].days
      /\ r.scanned = Len(given.book)
      /\ r.unparseable = Cardinality({i \in DOMAIN given.book :
                           given.book[i].bday # {} /\ BirthdayOf(given.book[i]) = {}})

Plain(text) == Replace(text, "CR", <<>>)
Structured == {"family_name", "given_name", "organization"}

\* A card read back has each field it was built from, and none that a line
\* break or a delimiter in another field smuggled in; carriage returns and
\* the scheme of an email or telephone URI are dropped.  (Fields that are
\* split at `;' are left to StructuredFieldsReadBack when they hold one.)
CardReadsBack ==
  code = "contact" =>
    \A k \in answer :
      /\ \A f \in {"uid", "full_name", "title", "note"} : k[f] = Plain(given[f])
      /\ k.emails = [i \in DOMAIN given.emails |-> Bare(Plain(given.emails[i]), "mailto:")]
      /\ k.phones = [i \in DOMAIN given.phones |-> Bare(Plain(given.phones[i]), "tel:")]
      /\ (\A f \in Structured : ~Contains(given[f], ";")) =>
           \A f \in Structured : k[f] = Plain(given[f])

\* The test vcard_round_trip_extracts_common_fields asks the same of the
\* family name, the given name and the organization.
StructuredFieldsReadBack ==
  code = "contact" =>
    \A k \in answer : \A f \in Structured : k[f] = Plain(given[f])

\* No physical line of a card is longer than the folding width, however its
\* symbols fall.
LinesFit ==
  code = "card" =>
    \A card \in answer : \A line \in ToSet(SplitAt(Plain(card), "LF")) :
      Bytes(line) <= FoldWidth

\* A registration is confirmed exactly when each URI is an entry of the
\* operator's list, or one over http that names the same URL but for the
\* port, which only a loopback host may do: never another scheme, host, path
\* or query, a fragment or user info.
RedirectsConfined ==
  code = "register" =>
    \A r \in answer :
      r.status = 201 <=>
        /\ given.configured
        /\ \A u \in given.asked : \E e \in given.entries :
             \/ u = e
             \/ u.scheme = "http" /\ \E p \in Ports : SameUrl(u, [e EXCEPT !.port = p])

\* A field's text in a response, by its place in the document.
Expected(r) ==
  LET place(p) == IF p.inner = "none" THEN FieldOf ELSE HrefOf
      fields == {<<"href", r.href>>} \cup
                {<<place(p)[p.name], p.text>> :
                   p \in {p \in ToSet(r.props) : /\ p.inner \in {"none", "href"}
                                                 /\ p.name \in DOMAIN place(p)}}
      full == {f \in fields : f[2] # <<>>}
      text(n) == (CHOOSE f \in full : f[1] = n)[2]
  IN  TrimResponse([open |-> TRUE, fields |-> [n \in {f[1] : f \in full} |-> text(n)],
                    addressbook |-> \E p \in ToSet(r.props) : p.inner = "addressbook"])

\* The responses whose end was read come out, in order, each with its own
\* href and the text of its own properties, whatever other elements hold an
\* href too; an incomplete one, or a field of one, never does.  Only a text that
\* cannot be decoded, or XML that is not well-formed, fails the whole.
ResponsesRead ==
  code = "multistatus" =>
    LET read == SubSeq(Events(given.document), 1, given.cut)
        ends == Cardinality({i \in DOMAIN read :
                               read[i] = [kind |-> "end", name |-> "response"]})
    IN  IF given.garbled THEN answer = {}
        ELSE \/ answer = {[i \in 1..ends |-> Expected(given.document[i])]}
             \/ answer = {} /\ [kind |-> "text", name |-> "undecodable"] \in ToSet(read)

\* Whatever resource a client asks for, or several or none, Logto is asked
\* for a single one, the configured audience, and never for a bare name.
OneResourceAsked ==
  code = "sign_in" =>
    \A pairs \in answer :
      /\ {pairs[i].value : i \in {i \in DOMAIN pairs : pairs[i].key = "resource"}}
           = {given.config.stalwart_audience}
      /\ Head(given.config.stalwart_audience) \in Absolute

\* What the metadata, the proxy and the validator make of the configured
\* URLs agrees, trailing slashes or not: a token obtained by discovery is
\* accepted, and the server named by the metadata is the issuer.
SignInsAccepted ==
  /\ code = "token" => answer # {}
  /\ code = "sign_in" =>
       \A registers \in BOOLEAN :
         ServerMetadata(given.config, registers).issuer
           \in ProtectedResource(given.config).authorization_servers
=============================================================================
