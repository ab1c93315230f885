---------------------------- MODULE ContactReads ----------------------------
(***************************************************************************)
(* The read tools of mcp.rs (whoami, list_address_books, list_contacts,    *)
(* search_contacts, upcoming_birthdays) over carddav_client.rs and its     *)
(* cache of discovered address-book homes.  A tool call is a sequence of   *)
(* HTTP exchanges: two to discover the home unless it is cached, one to    *)
(* list its books, one for each book; the server's contents change in      *)
(* between.  An exchange is one action, at the moment the server handles   *)
(* it, because what the client makes of the answer concerns that call      *)
(* alone; only the answer to a discovery goes to the shared cache, and is  *)
(* an action of its own.  Bug... definitions are mistakes the properties   *)
(* would notice; no specification uses them.                               *)
(***************************************************************************)
EXTENDS Integers, FiniteSets

CONSTANTS
  Calls,         \* tool calls, each made once
  Queries,       \* what they may ask, a subset of Args
  Tokens,        \* bearer tokens
  AccountsOf,    \* token -> the accounts it may have, [principal, home]
  Books,
  HomeOf,        \* [Books -> homes]: the home a book lies in
  Contacts,      \* those that match the query, or have a birthday soon
  BookOf,        \* [Contacts -> Books]: a contact's href lies in one book
  AtFirst,       \* the contacts there at first
  Trusted,       \* hrefs on the configured origin
  DiscoveryTtl,  \* DISCOVERY_TTL (3600 s)
  HttpTimeout,   \* of one exchange (30 s)
  DiscoveryCap,  \* DISCOVERY_CAP (256)
  Limit,         \* the `limit' argument
  None,
  MaxTime,       \* model bound: the clock stops here
  MaxChanges     \* model bound: changes on the server

Tools == {"whoami", "list_address_books", "list_contacts", "search_contacts",
          "upcoming_birthdays"}

\* A tool's bearer and the address book it is given, if any.
Args == {a \in [tool : Tools, token : Tokens, book : Books \cup {None}] :
           /\ a.tool = "list_contacts" => a.book # None
           /\ a.tool \in {"whoami", "list_address_books"} => a.book = None}

ASSUME ReadsAssumption ==
  /\ IsFiniteSet(Tokens) /\ IsFiniteSet(Contacts) /\ IsFiniteSet(Books)
  /\ Queries \subseteq Args /\ None \notin Args
  /\ \A t \in Tokens : \A a \in AccountsOf[t] :
       a = [principal |-> a.principal, home |-> a.home]
  /\ BookOf \in [Contacts -> Books] /\ AtFirst \subseteq Contacts
  /\ DiscoveryTtl \in Nat /\ HttpTimeout \in Nat
  /\ DiscoveryCap \in Nat \ {0} /\ Limit \in Nat \ {0}
  /\ MaxTime \in Nat /\ MaxChanges \in Nat
  /\ None \notin Books

VARIABLES
  now,
  account,      \* the server: token -> its account
  books,        \* the books it has
  contacts,     \* the contacts it has
  changes,      \* changes on the server so far
  discoveries,  \* token -> [home, cached_at], or None
  call,         \* each call's local state
  moved,        \* history: when the token's account last changed
  answered,     \* history: when a call's discovery was answered
  owed          \* history: contacts in the call's reach from its start on
                \* that no answer to it has left out

server  == <<account, books, contacts, changes, moved>>
history == <<answered, owed>>
vars    == <<now, server, discoveries, call, history>>

Accounts == UNION {AccountsOf[t] : t \in Tokens}
Homes == {a.home : a \in Accounts}
Principals == {a.principal : a \in Accounts}
Results == {"ok", "rejected", "invalid", "not_found", "failed", "auth_expired"}
\* Waiting for an answer, or with one in hand.
Asking == {"principal", "home", "list", "report"}
PC == {"idle", "discovered", "evict"} \cup Asking \cup Results

\* A call's locals: the query, what discovery found, the books not yet asked
\* and the contacts to return.
Idle == [pc |-> "idle", arg |-> None, principal |-> None, home |-> None,
         todo |-> {}, found |-> {}]

\* The contacts a query could see at this moment.
InReach(a, acc, bs, cs) ==
  {k \in cs : /\ BookOf[k] \in bs
              /\ IF a.book # None THEN BookOf[k] = a.book
                 ELSE /\ HomeOf[BookOf[k]] = acc[a.token].home
                      /\ BookOf[k] # acc[a.token].home}

Init ==
  /\ now = 0
  /\ account \in {f \in [Tokens -> Accounts] :
                    \A t \in Tokens : f[t] \in AccountsOf[t]}
  /\ books = Books
  /\ contacts = AtFirst
  /\ changes = 0
  /\ discoveries = [t \in Tokens |-> None]
  /\ call = [c \in Calls |-> Idle]
  /\ moved = [t \in Tokens |-> 0]
  /\ answered = [c \in Calls |-> 0]
  /\ owed = [c \in Calls |-> {}]
-----------------------------------------------------------------------------
Become(c, locals) == call' = [call EXCEPT ![c] = locals]

\* An error drops everything the call had found.
Fail(c, result) == Become(c, [Idle EXCEPT !.pc = result])

\* Hrefs are used as they come.
BugResolves(href) == TRUE

\* resolve_href: only hrefs on the configured origin are followed.
Resolves(href) == href \in Trusted

\* Cached discoveries never lapse.
BugCacheHit(t) == discoveries[t] # None

\* discovery_lookup
CacheHit(t) ==
  discoveries[t] # None /\ now - discoveries[t].cached_at < DiscoveryTtl

\* What follows discover().
AfterDiscovery(a) == IF a.tool = "whoami" THEN "ok" ELSE "list"

\* A tool is called: the book it is given is asked; else the home is taken
\* from the cache or discovered.
Call(c, a) ==
  /\ call[c].pc = "idle"
  /\ owed' = [owed EXCEPT ![c] = InReach(a, account, books, contacts)]
  /\ LET asked == [Idle EXCEPT !.arg = a]
     IN  \/ /\ a.book # None
            /\ IF Resolves(a.book)
               THEN Become(c, [asked EXCEPT !.pc = "report", !.todo = {a.book}])
               ELSE Fail(c, "invalid")
         \/ /\ a.book = None /\ CacheHit(a.token)
            /\ Become(c, [asked EXCEPT !.pc = AfterDiscovery(a),
                                       !.home = discoveries[a.token].home])
         \/ /\ a.book = None /\ ~CacheHit(a.token)
            /\ Become(c, [asked EXCEPT !.pc = "principal"])
  /\ UNCHANGED <<now, server, discoveries, answered>>

\* The rate limit, or an argument out of range: nothing is asked.
Reject(c) ==
  /\ call[c].pc = "idle"
  /\ Fail(c, "rejected")
  /\ UNCHANGED <<now, server, discoveries, history>>

\* PROPFIND current-user-principal.
FindPrincipal(c) ==
  /\ call[c].pc = "principal"
  /\ LET p == account[call[c].arg.token].principal
     IN  IF Resolves(p)
         THEN Become(c, [call[c] EXCEPT !.pc = "home", !.principal = p])
         ELSE Fail(c, "invalid")
  /\ UNCHANGED <<now, server, discoveries, history>>

\* PROPFIND addressbook-home-set.
FindHome(c) ==
  /\ call[c].pc = "home"
  /\ LET h == account[call[c].arg.token].home
     IN  IF Resolves(h)
         THEN Become(c, [call[c] EXCEPT !.pc = "discovered",
                                        !.principal = None, !.home = h])
         ELSE Fail(c, "invalid")
  /\ answered' = [answered EXCEPT ![c] = now]
  /\ UNCHANGED <<now, server, discoveries, owed>>
-----------------------------------------------------------------------------
Cached == {t \in Tokens : discoveries[t] # None}

\* Of a full cache the lapsed entries go,
Kept == {u \in Cached : Cardinality(Cached) >= DiscoveryCap => CacheHit(u)}

Oldest == {u \in Kept : \A w \in Kept :
             discoveries[u].cached_at <= discoveries[w].cached_at}

\* Nothing is evicted for a new token.
BugVictims(t) == {{}}

\* and then, for a new token, the oldest.
Victims(t) ==
  IF Cardinality(Kept) < DiscoveryCap \/ t \in Kept THEN {{}}
  ELSE {{v} : v \in Oldest}

\* The entry's age counts from when it lapses.
BugEntry(h) == [home |-> h, cached_at |-> now + DiscoveryTtl]

Entry(h) == [home |-> h, cached_at |-> now]

\* discovery_insert, once the answer has arrived.
Discover(c) ==
  /\ call[c].pc = "discovered"
  /\ LET t == call[c].arg.token
     IN  \E gone \in Victims(t) :
           discoveries' = [u \in Tokens |->
             IF u = t THEN Entry(call[c].home)
             ELSE IF u \in Kept \ gone THEN discoveries[u] ELSE None]
  /\ Become(c, [call[c] EXCEPT !.pc = AfterDiscovery(call[c].arg)])
  /\ UNCHANGED <<now, server, history>>

\* PROPFIND on the home: one off-origin book fails the call.  A response
\* without an href, or not said to be an address book, is passed over, as is
\* the home itself, and a document that is cut off ends early: the answer
\* names only some of the books there.
ListBooks(c) ==
  /\ call[c].pc = "list"
  /\ LET there == {b \in books \ {call[c].home} : HomeOf[b] = call[c].home}
     IN  \E listed \in SUBSET there :
           LET ends == call[c].arg.tool = "list_address_books" \/ listed = {}
           IN  /\ IF \A b \in listed : Resolves(b)
                  THEN Become(c, [call[c] EXCEPT
                         !.pc = IF ends THEN "ok" ELSE "report",
                         !.todo = IF ends THEN {} ELSE listed])
                  ELSE Fail(c, "invalid")
               /\ owed' = [owed EXCEPT ![c] =
                             {k \in @ : BookOf[k] \notin there \ listed}]
  /\ UNCHANGED <<now, server, discoveries, answered>>

Limited(a) == a.tool # "upcoming_birthdays"

\* What is kept of some contacts: all of them, or the first in the server's
\* order up to the limit.
Taken(a, all) ==
  IF Limited(a) /\ Cardinality(all) > Limit
  THEN {s \in SUBSET all : Cardinality(s) = Limit}
  ELSE {all}

\* The first book that has an answer ends the search.
BugDone(a, rest, found) == rest = {} \/ found # {}

\* The loop over the books ends with the last, or when the limit is reached.
Done(a, rest, found) ==
  rest = {} \/ (Limited(a) /\ Cardinality(found) >= Limit)

\* REPORT addressbook-query on the next book.  If it has gone since it was
\* listed, or one of the contacts given is off the origin, the call fails.  A
\* response without an href or a vCard (an error for that contact, say) is
\* passed over, and again the document may end early.
Report(c, b) ==
  /\ call[c].pc = "report" /\ b \in call[c].todo
  /\ LET a    == call[c].arg
         rest == call[c].todo \ {b}
         there == {k \in contacts : BookOf[k] = b}
     IN  \/ /\ b \notin books
            /\ Fail(c, "not_found")
            /\ UNCHANGED owed
         \/ /\ b \in books
            /\ \E given \in SUBSET there :
                 /\ IF \E k \in given : ~Resolves(k) THEN Fail(c, "invalid")
                    ELSE \E f \in Taken(a, call[c].found \cup given) :
                           /\ call[c].found \subseteq f
                           /\ Become(c, [call[c] EXCEPT
                                !.pc = IF Done(a, rest, f) THEN "ok" ELSE "report",
                                !.todo = IF Done(a, rest, f) THEN {} ELSE rest,
                                !.found = f])
                 /\ owed' = [owed EXCEPT ![c] = @ \ (there \ given)]
  /\ UNCHANGED <<now, server, discoveries, answered>>

\* An exchange fails: no connection, a timeout, an error status, a body that
\* is too large or not what it should be.  The call fails as a whole.
ExchangeFails(c) ==
  /\ call[c].pc \in Asking \cup {"discovered"}
  /\ Fail(c, "failed")
  /\ UNCHANGED <<now, server, discoveries, history>>

Evict(c) ==
  discoveries' = [discoveries EXCEPT ![call[c].arg.token] = None]

\* 401 or 403: send() forgets the home,
Refused(c) ==
  /\ call[c].pc \in Asking
  /\ Evict(c)
  /\ Become(c, [Idle EXCEPT !.pc = "evict", !.arg = call[c].arg])
  /\ UNCHANGED <<now, server, history>>

\* and react_to_auth_expiry does so again before the tool answers (and drops
\* the token, as DropToken of TokenValidation).
React(c) ==
  /\ call[c].pc = "evict"
  /\ Evict(c)
  /\ Fail(c, "auth_expired")
  /\ UNCHANGED <<now, server, history>>
-----------------------------------------------------------------------------
\* The server (external) changes: contacts come and go, books go, accounts
\* move to another home.
Change(acc, bs, cs) ==
  /\ changes < MaxChanges
  /\ changes' = changes + 1
  /\ account' = acc /\ books' = bs /\ contacts' = cs
  /\ moved' = [t \in Tokens |-> IF acc[t] = account[t] THEN moved[t] ELSE now]
  /\ owed' = [c \in Calls |->
       IF call[c].arg = None THEN owed[c]
       ELSE owed[c] \cap InReach(call[c].arg, acc, bs, cs)]
  /\ UNCHANGED <<now, discoveries, call, answered>>

ContactAppears(k) ==
  k \notin contacts /\ Change(account, books, contacts \cup {k})

ContactGoes(k) ==
  k \in contacts /\ Change(account, books, contacts \ {k})

BookGoes(b) == b \in books /\ Change(account, books \ {b}, contacts)

AccountMoves(t, a) ==
  account[t] # a /\ Change([account EXCEPT ![t] = a], books, contacts)

\* An answer that takes longer than the timeout is not used.
Tick ==
  /\ now < MaxTime
  /\ \A c \in Calls :
       call[c].pc = "discovered" => now - answered[c] < HttpTimeout
  /\ now' = now + 1
  /\ UNCHANGED <<server, discoveries, call, history>>

Next ==
  \/ \E c \in Calls :
       \/ \E a \in Queries : Call(c, a)
       \/ Reject(c)
       \/ FindPrincipal(c) \/ FindHome(c) \/ Discover(c) \/ ListBooks(c)
       \/ \E b \in Books : Report(c, b)
       \/ ExchangeFails(c) \/ Refused(c) \/ React(c)
  \/ \E k \in Contacts : ContactAppears(k) \/ ContactGoes(k)
  \/ \E b \in Books : BookGoes(b)
  \/ \E t \in Tokens : \E a \in AccountsOf[t] : AccountMoves(t, a)
  \/ Tick

Spec == Init /\ [][Next]_vars
-----------------------------------------------------------------------------
\* The types of the variables.
TypeOK ==
  /\ now \in Nat
  /\ account \in [Tokens -> Accounts]
  /\ books \subseteq Books /\ contacts \subseteq Contacts
  /\ discoveries \in [Tokens -> [home : Homes, cached_at : 0..now] \cup {None}]
  /\ call \in [Calls -> [pc : PC, arg : Args \cup {None},
                         principal : Principals \cup {None},
                         home : Homes \cup {None},
                         todo : SUBSET Books, found : SUBSET Contacts]]
  /\ moved \in [Tokens -> 0..now] /\ answered \in [Calls -> 0..now]

(***************************************************************************)
(* CardDavClient::new: "Returned DAV hrefs are resolved only when they     *)
(* remain on this origin".  The bearer never leaves the origin: whatever   *)
(* principal, home or book the server or the caller names, now or when the *)
(* home was cached, the href a request goes to is a trusted one.           *)
(***************************************************************************)
BearerStaysOnOrigin ==
  \A c \in Calls :
    /\ call[c].pc = "home" => call[c].principal \in Trusted
    /\ call[c].pc = "list" => call[c].home \in Trusted
    /\ call[c].todo \subseteq Trusted

\* DISCOVERY_CAP bounds the cache, whichever calls fill it.
DiscoveriesBounded == Cardinality(Cached) <= DiscoveryCap

(***************************************************************************)
(* DISCOVERY_TTL: a call is given a cached home the account no longer has  *)
(* only for a while after the account moved: DISCOVERY_TTL, and the time   *)
(* an answer from before the move may have taken to arrive.                *)
(***************************************************************************)
HomeLagBounded ==
  [][ \A c \in Calls :
        /\ call[c].pc = "idle" /\ call'[c].home # None
        /\ call'[c].home # account[call'[c].arg.token].home
        => now - moved[call'[c].arg.token] < DiscoveryTtl + HttpTimeout ]_vars

(***************************************************************************)
(* A successful answer of list_contacts, search_contacts or                *)
(* upcoming_birthdays that the limit did not cut is as complete as the     *)
(* server's own answers: every contact that was in the caller's books      *)
(* throughout the call is in it, unless the answer that should have named  *)
(* it or its book did not; however other contacts and books changed        *)
(* between the exchanges.  An exchange that fails, on whichever book, is   *)
(* an error of the call and never a shorter list.  (A call that works on a *)
(* home the account has left is HomeLagBounded's matter.)                  *)
(***************************************************************************)
CompleteOrFailed ==
  \A c \in Calls :
    LET a == call[c].arg
    IN  /\ call[c].pc = "ok"
        /\ a.tool \notin {"whoami", "list_address_books"}
        /\ a.book # None \/ call[c].home = account[a.token].home
        /\ Limited(a) => Cardinality(call[c].found) < Limit
        => owed[c] \subseteq call[c].found
=============================================================================
