# carddav-mcp in TLA+

A TLA+ model of carddav-mcp, the MCP server that gives an assistant access to a
user's CardDAV address books through Logto bearer tokens. TLC checks the modules
on small instances; TLAPS proves the safety properties, but for one, for every
value of their constants. Paths below are relative to `src/src/`.

## 1. Inventory

A request to `/mcp` passes the body limit, `bearer_auth` (auth.rs), the
initialize rate limit (main.rs), rmcp's session layer behind
`CappedSessionManager` (session.rs), and ends in a tool of mcp.rs, which charges
the tool rate limit and talks to the CardDAV server (Stalwart) with the caller's
own token. Clients obtain that token through the OAuth proxy in front of Logto.
All state is in memory and shared by the threads of one tokio runtime; nothing
survives a restart, so there is no recovery to model.

| Component | State | Operations | What is hard | What makes it correct |
|---|---|---|---|---|
| Token validation (logto_oidc.rs, auth.rs) | validation cache, JWKS cache, refresh gate | `validate_token`, `decoding_key_for`, `refresh_jwks`, `cache_insert`, `drop_token` | a gate held across a network await; cancellation; key rotation during a fetch; drop racing insert | fetches are exclusive and spaced; old keys only after a failed refresh; cache hits are verified and unexpired; the cache is bounded; everybody is answered |
| Sessions (session.rs) | rmcp's session map, `create_gate` | create, initialize, close, idle expiry | count, then create, with awaits between | the cap holds; nobody waits forever |
| Contact writes (mcp.rs, carddav_client.rs) | the server's store | create, update (GET, then PUT), delete | other clients between GET and PUT; lost replies; one result for several refusals | no lost update; UIDs stay; results are truthful |
| OAuth proxy (oauth_proxy.rs) | `pending` | `/authorize`, `/oauth/callback`, `/token` | abandoned, late and repeated callbacks; a full map; a reply that breaks off | the code reaches its own client, once; live sign-ins survive a full map |
| Rate limiters (rate_limit.rs) | six maps of token buckets | `Limiter::check`, `InitializeLimiter::check` | draw after the lock is released; purge and eviction | quota in every stretch of time; refusals justified and, for sessions, free |
| Request pipeline (main.rs, auth.rs) | each request's stage | body limit, `bearer_auth`, `initialize_rate_limit` | a later stage refuses, or the client hangs up, after an earlier one has charged | quota and cap hold end to end; everybody is answered |
| Last-used tracker (last_used.rs, token_introspect.rs) | bearer -> time, IP | `record`, `get`, `parse_client_ip` | time taken before the lock; the question must not count as a use; a header the client may lengthen or spoil; a full map | what is shown is no outdated use, and from its caller's address or none |
| Contact reads and discovery cache (mcp.rs, carddav_client.rs) | token -> home set; each call's progress | `whoami`, `list_address_books`, `list_contacts`, `search_contacts`, `upcoming_birthdays`; `discover`, `evict` | contents change between the exchanges of one call; one exchange of several fails; insert after an await | answers are as complete as the server's or errors; stale homes are forgotten in time; the bearer stays on the origin; the cache is bounded |
| Birthdays (birthday.rs, mcp.rs) | - | `parse_bday`, `days_until`, `turning`, the listing | leap days, century years, window edges | what is listed is what is due |
| vCard text (mcp.rs) | - | validate, escape, fold, build; unfold, unescape, parse | order of the escapes, folds within a character | a card reads back as it was written; lines fit |
| Multistatus parser (carddav_client.rs) | element stack, response, capture | one step per XML event | nested hrefs, text in pieces, early end | each response has its own fields |
| Redirect allow-list and registration (oauth_redirect.rs, oauth_metadata.rs) | - | `parse_allowlist`, `is_allowed_redirect_uri`, `register` | any port for loopback hosts, comparison by parts | nothing but what is listed is confirmed |
| Audiences (config.rs, oauth_metadata.rs, oauth_proxy.rs, logto_oidc.rs) | - | `from_env`, both metadata documents, `apply_dav_resource`, `accepted_token_audiences` | URLs compared as strings, built in four files | a token obtained by discovery is accepted |
| Audit, metrics, telemetry | - | - | - | not modelled: output only |

The hazards this code is exposed to are listed, each at its line with the
properties that would notice, in `PROJECT.json`.

## 2. Modules and the code they model

Each module has one action per critical section or await of the code. The
definitions named `Bug...` are mistakes one could make in the definition after
them; no specification uses them, they serve to show that a property can fail.

**TokenValidation**. `keys`, `fetched_at`, `last_refresh_attempt` are the
fields of `JwksCache`, `gate` is `jwks_refresh_gate`, `cache` maps a token to
its entry's `expires_at`. `pc[r]` is where request `r` is in `validate_token`:
`Present` (cache lookup, header) -> `FastPath` -> `Acquire` -> `CheckAgain` ->
`RecordAttempt` -> `IssuerAnswers` -> `InstallKeys` or `FetchFails` -> `Decode` ->
`CacheInsert`; then the handler runs and either returns (`ToolReturns`) or met a
401/403 from the server (`DropToken`). `Disconnect` drops the request's future at
an await and with it the gate's guard. A token is what the code can find out
about it: its kid, whether its algorithm, signature and audience are good, its
`exp`. The issuer publishes each key during a fixed interval. `attempt_ok` and
`dropped` are history variables.

**RequestPipeline** extends Sessions. `stage[r]` is where a request is in
`mcp_routes`: body limit (`Arrive`), `bearer_auth` (`Accept`, `Refuse`),
`LastUsedTracker::record` under its lock (`Record`; `stamp` is the time it read
before), `initialize_rate_limit` (`InitializeLimit`), then the session manager
(`SessionStep`, the actions of Sessions), a call within a session, or
`/token/introspect` (`Report`). `HangUp` drops the future at an await. Token
validation and the limiter's bucket are there by their outcome; TokenValidation
and RateLimit have the details. `Xff` is the client's list (`claim`) with what the
proxies append; `ClientIp` reads it, if it is text (`to_str().ok()` in auth.rs), from
the right. `Sent` is what the requests of an instance may be. `recent` and `due` are
history variables.

**Sessions**. `sessions` is rmcp's map, `create_gate` the mutex. `Lock`,
`Count`, `Create` are the three awaits of `create_session`; `SessionEnds` (close
or idle expiry) takes no gate and happens at any time.

**ContactWrites**. A tool call is `Call`, for an update `GetContact`, then
`ServerWrites` (at one moment the server applies the write or refuses it: `Applies`,
`Refusals`), then `ReplyArrives` or `ReplyLost`. It refuses with 404, with 412 for a
failed If-Match / If-None-Match, and with 409 for a PUT where the address book is
missing or, on a create, another contact has the UID (`Blocked`); `ResultOf` makes
a conflict of 409 and 412 alike. A vCard is its UID, the version of its common fields,
and whether it has other properties; `book` is whether the address book is there. The
server and the other client (`Foreign...`, which deletes and makes the address book as
well) are external, modelled by RFC 9110, RFC 4918 and RFC 6352: ETags change with
every write and are sent with every GET, UIDs are unique in the book.

**ContactStore** is what the write tools promise, and ContactWrites implements it
(`AtomicWrites`, with `phase` and `base` as the refinement mapping): a call
takes effect at most once, at one moment, on the version that is there then and
that the caller named; a refusal has a reason in the store or in the absence of the
address book; the answer is true.

**ContactReads**. `discoveries` is the client's cache; `call[c]` is a tool call's
local state. `Call` looks in the cache; `FindPrincipal`, `FindHome` and `Discover`
are `discover` (the last is `discovery_insert`, when the answer has arrived);
`ListBooks` and, for each book, `Report` are the exchanges that follow. Each of
them may instead fail (`ExchangeFails`) or be refused (`Refused`, then `React`:
the two evictions). The server is external: contacts appear and go, books go,
accounts move to another home at any time. Its answers may name only some of what is
there (`listed`, `given`): `list_address_books` and `query_contacts` pass over a
response without an href or a vCard, such as an error for one contact, and
`parse_multistatus` reads a document that is cut off as far as it goes. Hrefs are
model values, on the origin (`Trusted`) or off it. `moved`, `answered` and `owed` are
history variables; `owed` is what has been in the call's reach since it began, less
what an answer to it has left out. `answered` also stands for the HTTP client's timer.

**OAuthProxy**. `pending` is the map; `Authorize` is `authorize` with `insert`
and its sweep, `Callback` is `callback` with `take`, `Token` is `token` for a code or a
refresh token, with its two refusals (`BadRequest`: a `redirect_uri` that is not on the
allow-list, none for a code). Logto (`LogtoReturns`, the single use of codes, refresh
tokens it takes until it does not) is external. Clients may ask again at any time, with
whatever they hold. `renewable` is who holds a refresh token; `owner` and `redirects`
are history variables.

**RateLimit**. `map` and `bucket` are the bucket maps and the buckets they point
to; a thread that has looked a bucket up (`Lookup`) holds it, in or out of the
map, until it draws on it (`Draw`). `kind`, fixed at the start, says
whether it is `Limiter` or `InitializeLimiter`. governor is external: a token bucket of `Burst` tokens with
one more per `Period`, as the comment in `get_or_insert` has it. Reads and
writes have separate maps and differ in nothing but the quota, so one category
stands for both.

**Birthday**, **VCardText**, **Multistatus**, **Redirects** and **Audiences** are
pure functions of the code. A loop that the proofs follow is a recursive function
(`Run` in **Iteration**, `Found` in Birthday), the others are folds. Text is a
sequence of symbols, so that escaping, folding and trimming do what they do; a URI
or URL is what `Url::parse` makes of it; the stable sort of the birthdays puts each
at its `Place`. **PureCode** composes them: a behaviour is
one call, with what follows from it (a card is read back by `ReadCard`; a sign-in
becomes a token in `PresentToken`). Its properties compare each answer with a
definition written from the promise, not from the algorithm: `Due` searches ten
years for anniversaries, `Expected` reads the document and not its events.

**Loops** is a loop over a sequence with any body: `Step` is a constant, and each
loop of VCardText and Multistatus is an instance in the proofs.

Lines of the source that a definition stands for are in `PROJECT.json`, "map".

## 3. Runs

| Run | Instance | Shows |
|---|---|---|
| `token_validation` | 2 requests, 4 tokens (2 good, one forged, one opaque), keys rotating at 1 and 2, JWKS TTL 4, interval 2, validation cache of 1, TTL 2, clock to 4, fair | `GateExclusive`, `RefreshSpacing`, `StaleKeyOnlyAfterFailure`, `MissingKeyExplained`, `CacheHitsSound`, `CacheBounded`, `TypeOK`, `EveryRequestAnswered` |
| `pipeline` | 2 requests at a time, 3 in all, 2 bearers of one user, tracker of 1, 2 session ids, cap 1, burst 1, one tick, fair; the client names another address, which is also what the second proxy appends, or sends what is not text | `LatestUseShown`, `SessionsWithinQuota`, `CapHolds`, `PTypeOK`, `RequestsAnswered` |
| `contact_writes` | 2 calls, 2 hrefs, contacts of 2 UIDs or none, 3 writes, the address book deleted and made at will | `NoLostUpdate`, `TypeOK`, and `AtomicWrites` (the refinement: UIDs stay, results are truthful, creates only create) |
| `contact_reads` | 2 calls, 2 bearers, cache of 1, TTL 2, timeout 1, 4 contacts in 3 books, a home that lists itself, one change on the server, answers that leave out anything | `CompleteOrFailed`, `HomeLagBounded`, `BearerStaysOnOrigin`, `DiscoveriesBounded`, `TypeOK` |
| `oauth_proxy` | 3 flows (one unregistered), 3 states, cap 2, TTL 2 | `RightClient`, `RedirectedOnce`, `PendingBounded`, `SignInsNotEvicted`, `BusyOnlyWhenFull`, `TypeOK` |
| `rate_limit` | either limiter, 2 bearers of one subject, 2 threads, bearers' map of 1, burst 2, 4 calls | `WithinQuota`, `RefusalsJustified`, `MapsBounded`, `RefusalIsFree`, `TypeOK` |
| `pure` | some 20,000 calls: 30 address books on 12 dates around 28 February, leap and century years, and the year's end; cards with every text of at most two of eight symbols, longer ones at a folding width of five; 9 allow-lists against all parsed URIs; documents of two responses cut off at each event; 135 environments | `BirthdaysInWindow`, `CardReadsBack`, `LinesFit`, `RedirectsConfined`, `ResponsesRead`, `OneResourceAsked`, `SignInsAccepted` |

Why the bounds suffice: caps of one or two are full with two or three
identities, so sweeps, evictions and refusals happen; two requests at a gate give
each order of check, wait, fetch and cancellation, and the proofs cover any number;
the clock runs past every TTL, interval and `exp` of the instance. `MaxTime`,
`MaxWrites`, `MaxChanges`, `MaxRequests` and `MaxCalls` are bounds of the models, not of the code. Deadlock is
checked except where the bounded calls simply come to an end (ContactWrites,
ContactReads, RateLimit, RequestPipeline, PureCode).

Runs that show a disagreement between a comment or a test and the code ("findings"):

- `revoked`: the cache's TTL does not bound how long a revoked token works.
- `dropped`: a concurrent validation undoes `drop_token`.
- `contact_other_fields`: an update removes the properties the tool has no field for.
- `oauth_token_relay`: a broken-off token answer is relayed as a success.
- `vcard_fields`: a name or organization with a `;` is cut when it is read back.

**Fairness.** Only `token_validation` and `pipeline` assume any. Steps a task takes by
itself are weakly fair (tokio runs ready tasks; the HTTP client's timeout ends
each fetch). Taking a gate is strongly fair: tokio's `Mutex` is FIFO. Nothing is
assumed of clients, of tools, of the clock, or that sessions ever end.

## 4. Proofs

`TokenValidationProofs` (for any number of requests, tokens, keys, and any
limits with `MinRefresh <= JwksTtl`):

- `TypeCorrect`, `GateIsExclusive`: inductive as they stand. The gate's holder
  is the only request in the critical section because every way out, error and
  cancellation included, goes through `Release`.
- `RefreshesAreSpaced`, `StaleKeysOnlyAfterFailure`, `MissingKeysAreExplained`
  rest on `RefreshInv`: `fetched_at` is not before a successful attempt; what the
  holder found under the gate (cooldown over, attempt recorded) stays true while
  it holds it; the installed key set and the answer being read were published
  at some moment since the last attempt. Without it the action properties do not
  follow, since the check, the record and the install are separate steps.
- `CacheIsSound` needs that a request at `insert` has a trusted token;
  `CacheIsBounded` needs that cardinalities are finite.

`RequestPipelineProofs` (any number of requests, bearers, proxies, sessions):

- `SessionCap`, of Sessions by itself. It is not inductive; it is strengthened by
  "a request at `insert` has room", which lasts because only the gate's holder adds
  sessions.
- `PipelineIsSessions`: every step of the pipeline is a step of Sessions or leaves
  its variables alone, so `PipelineCap` follows from `SessionCap`.
- `LatestUseIsShown`: a request on its way to `record` is a use and has read the
  clock since it came (`Recordable`). `CallersAddress`, a lemma on sequences,
  shows that the hop count finds the caller's entry behind whatever text the
  client has sent, and that a list which is not text yields no address.
- `QuotaHolds`: what a subject may still open covers its tokens left and its
  requests between the limiter and `create_session` (`Quota`). Hanging up there
  loses the token and never wins one.

`ContactWritesProofs` (any number of calls, contacts and writes):

- `NoUpdateIsLost`: a version that has been replaced never comes back, so at the
  PUT the store holds what the GET returned or something newer (`Current`); the
  precondition admits the write in the first case only.
- `WritesAreAtomic` is the refinement of ContactStore under `saw <- base` and
  `phase`: the server's step is the atomic effect or a refusal that has its reason in
  the store at that moment (404, 409, 412 each by itself), the steps before and after
  it are the call's beginning, its end, or stutters.

`ContactReadsProofs` (any number of calls, books, contacts and changes):

- `BearerStays` and `DiscoveriesAreBounded`: a call's locals and the cache
  name only hrefs that `resolve_href` lets through (`OnOrigin`).
- `HomesLagBriefly`: a home the account has left was answered before the move and
  cached at most an exchange later (`Lag`).
- `AnswersAreComplete`: a contact in reach since the call began, and left out of no
  answer, is among those found or in a book still to be asked (`Pursued`). An account that leaves a home
  and comes back is the interesting case: nothing has then been in reach all
  along, so nothing is owed.

`OAuthProxyProofs` (any number of flows and states, any cap and TTL): what is
remembered under a state, what Logto has for it and what a client holds are
tied to the flow the state was drawn for (`Remembered`); this lasts because a
state is never drawn twice. The action properties follow from it and from the
order of sweep, test and insert in `Authorize`.

`RateLimitProofs` (any burst, period, number of identities and threads):

- `QuotaIsKept` and `RefusalsAreJustified`: a bucket is the time at which it is
  full. `Due(log, i)` is that time for a bucket that was full before request `i` of
  an identity's log: the time of `i`, and a period for it and for each one after
  it. The bucket in the map is full no earlier than any `Due` (`Paid`, in
  `Charged`), so what it lets through is allowed; a bucket in use, in the map or
  not, is full by now or by one of them (`Owed`, in `Fair`), so what it refuses is
  not. Two identities never share a bucket, in or out of the map
  (`Distinct`). An idle bucket is full again and nobody is about to draw on it
  (`PurgedIsFull`), which is where `BUCKET_IDLE_TTL >= Burst * Period + MaxStall`
  is needed; so a purge gives nothing away. The first theorem excepts identities
  that have lost a bucket in use to eviction; the second does not.
- `MapsAreBounded`, `RefusalsAreFree`.

`PureCodeProofs`, for every argument of the pure functions:

- `RegistrationsConfined`: every allow-list and every URI.
- `OnlyTheAudienceIsAsked`, `DiscoveredTokensAccepted`: every environment and
  whatever parameters a client sends. Each of the two metadata documents, the proxy
  and the validator strips slashes in its own way; the lemmas show that stripping
  never takes the origin and that `ApplyDavResource` leaves one `resource`.
- `WindowFindsNearest`: `days_until` looks at one year and the next; whatever the
  year, the leap rule included, that finds the nearest anniversary of the ten years
  that the promise searches (`OccurrenceIsAnniversary`, `SearchStarts`, `FoundIsFirst`).
- `BirthdaysListed`: every address book, date and window. `FoundFollows` carries the
  tool's loop over the contacts, `SortedBySooner` says that the sort is a permutation
  in order, and `ListedIsDue` that one contact is listed as it is due.
- `CardsFit`: every card of every contact. A line's bytes and the room left are
  carried along the folding loop (`Fits`); escaping leaves no line break in a field
  (`EscapeUnbroken`), so a card has no line but those that were folded.
- `CardsReadBack`: every contact. `UnescapeEscape` takes back the five replacements,
  in their order, symbol by symbol; `CardUnfolds` carries what has been read of the
  physical lines (`Reading`) along the folding loop, so that unfolding gives the
  logical lines again; then each line is read on its own (`HeadingRead`, `EachRead`,
  `OrganizationLine` and so on). What the theorem says of a name or an organization
  it says only when it has no `;`: the run `vcard_fields` shows why.

- `MultistatusRead`: every document, cut off after any event and garbled or not.
  Reading a text, a property or a whole response either fails, which takes a text
  that cannot be decoded, or leaves the parser in one state (`Reaches`, `Comes`). A
  property read in its place adds its text to its own field and to no other, whatever
  `href` it holds (`PropRead`, then `PropsRead` for a list of them), so a whole
  response comes out with what `Expected` reads in the tree (`ResponseRead`). In the
  middle of a response nothing comes out (`HandleKeeps`): the only event that ends
  one is its own (`InnerProperties`, `ResponseBody`). `Right` says of a beginning of
  a document that the responses it ends are the ones that come out; it is carried
  from one response to the next (`Continued`, `DocumentRead`). Garbled XML fails at
  once (`Garbling`), and nothing that has failed recovers (`FailedStays`).

An induction over data is one on numbers or on a set: were the last step not reached,
there would be a first that is not (`LeastOf`, `AllReached`), or a shortest sequence
whose elements have been appended one by one (`AllBuilt`). That, with the lemmas that
unroll a loop (`LoopUnrolls`) and carry an invariant along it (`LoopStays`), is proved
in `Loops` once, for any body.

The state machines have their type invariants proved as well. Every safety invariant
and every action property of a passing run is proved. Only model-checked are the
liveness properties `EveryRequestAnswered` and `RequestsAnswered`: fairness and ENABLED
are out of the prover's reach.

What is assumed of the constants, beyond their types: an origin is not `/`
(`AudiencesAssumption`); contacts have hrefs of their own and one BDAY at most, and
a reference date is a date of year 0 or later (`BirthdaysAssumption`); a symbol is
shorter than a continuation line, as every character of UTF-8 is than 74 bytes
(`WidthAssumption`), and a space has one byte (`SymbolsAssumption`); a response of a
document has each property once, and no elements inside one whose value is text, as
WebDAV has it (`DocumentsAssumption`; `parse_multistatus` would join the texts of a
property that came twice).
Assumptions are the named ASSUMEs of the component modules; TLC evaluates them
in every run.

## 5. What the models assume and leave out

- Time is in whole units and one clock serves `Instant` and `SystemTime`;
  `now_unix` truncates, so a cache entry may live up to a second past `exp`, less
  than the leeway. A step back of the wall clock is not modelled.
- Lock poisoning (a panic under a lock) is not modelled.
- A kid names one key for good; hashes of tokens and random states do not collide.
- In `FastPath` the read of the JWKS and the queueing for the gate are one step:
  what happens between them is the same as waiting longer.
- A thread pauses at most `MaxStall` between looking a bucket up and drawing on
  it, and `BUCKET_IDLE_TTL` covers that and a whole refill (1920 s of 3600 s).
- A redirect is followed inside reqwest, which takes the bearer off a request to
  another host; `BearerStaysOnOrigin` is about the hrefs this code follows.
- In ContactReads contacts have one book each and are told apart by href; a
  server that lists one href in two answers (`seen` in `search_contacts`) is left
  out. `search_contacts` checks the query's length once per book, after the
  listing; that error is an `ExchangeFails`.
- `restore_session` passes through to rmcp without the cap; rmcp uses it only with
  a session store, and `build_router` configures none.
- The chain of proxies is as long as `trusted_proxy_hops` says ("the measured
  length of that chain"); with another length the address is not the caller's. The
  proxies keep X-Forwarded-For in one line, as the code reads only the first.
- A body that announces more than the limit never gets in (`Arrive`); one that
  proves too large on the way fails in rmcp, after the initialize limit has charged it.
- The pipeline's initialize bucket is never evicted, which holds below
  MAX_BUCKETS_PER_MAP; RateLimit has the map and its evictions.
- `CapHolds` is an upper bound. Sessions that nobody knows any more count against it
  until rmcp reaps them; that it does is not claimed.
- In OAuthProxy any `redirect_uri` on the allow-list will do at `/token`, since the
  proxy replaces it by its own callback, and Logto therefore finds the one it knows.
- Redirects has the allow-list's entries trimmed already; an entry with blanks around
  it is refused by the model and trimmed by `parse_allowlist`.
- Birthday has dashes where `parse_bday` takes anything that is no digit (section 6).
- A multistatus property has one href. A home-set with several, which RFC 6352
  allows, is read by the code as the texts joined into one.
- Only `GET /token/introspect` is answered by the handler, and only it is an
  introspection in the model. A request's subject is its token's `sub`.
- In VCardText an absent optional field and an empty one are the same, as they
  are to `build_vcard`; BDAY and PHOTO are read but never written, and are left
  out. Property names are one symbol; letter case is left out.
- Url::parse, chrono's calendar, quick_xml's events, and the standard library's
  `replace`, `split` and `trim` are external, modelled by what they do.
- rmcp, governor, reqwest, jsonwebtoken, axum, Logto and the CardDAV server are
  external.
- Not modelled: audit log, metrics and telemetry (output only, nothing reads it
  back); bind addresses, quotas and sizes of the configuration, which are parsed
  once and are constants here; the constant lists of the metadata documents; the
  wording of queries, prompts and errors.

## 6. Comments the code does not follow

Besides the five findings, which have a run each, modelling turned up these. The models
follow the code; no property states the comment.

- last_used.rs:54-55 says of the recorded address "parsed from the `X-Forwarded-For`
  header (leftmost value)". `parse_client_ip` takes the entry `trusted_proxy_hops` in
  from the right, as its own comment says; the leftmost is the client's to choose.
  `LatestUseShown`, which holds, says that it is not what is recorded.
- carddav_client.rs:58 reports `Conflict` as "CardDAV write conflicted with the current
  ETag". Lines 400, 428 and 447 make a conflict of 409 too, which a server answers for
  a missing address book or a UID that another contact has; no ETag is then in question,
  and no contact need be there. `AtomicWrites` states what a conflict may mean.
- mcp.rs:309-311 says of `unparseable_birthdays` "a non-zero count here is the only
  signal that the answer is incomplete". An answer is incomplete without that signal
  when the server's was: responses without a vCard are passed over
  (carddav_client.rs:323-327, 240-244; the status of a response is never read) and a
  document that breaks off is read as far as it goes (738). `CompleteOrFailed` is
  therefore relative to the server's answers, and ResponsesRead describes the early end.
- birthday.rs:28-33 lists the forms a `BDAY` may have and says that anything else gives
  `None`. The digits are filtered out of the value (line 44), so other separators, as in
  `1984/03/17`, are read as well.

## 7. Plan

Done, in this order: token validation; sessions; contact writes and their abstract
store; OAuth proxy; rate limits; contact reads with the discovery cache; the request
pipeline with the last-used tracker, composed with the session manager; the pure
code (birthdays, vCard text, multistatus, redirects, audiences); proofs of all safety
and action properties.

Worth doing next:

- `TokenValidation` as the authentication stage of the pipeline, which now has
  it by its outcome: for that, its requests would end in `Accept` or `Refuse`. The
  state space is the product of the two; each half is checked on its own now.
- An abstract limiter (a log of admissions, and `Allowed`) that `RateLimit`
  implements as long as nothing is evicted in use: `QuotaIsKept` and
  `RefusalsAreJustified` are the two halves of that refinement.
- BDAY and PHOTO in VCardText, if the write tools come to set them.
