------------------------------ MODULE Redirects -----------------------------
(***************************************************************************)
(* oauth_redirect.rs: the allow-list of redirect URIs and what it allows;  *)
(* and the registration handler of oauth_metadata.rs, which checks against *)
(* it too.  A URI is a record of what Url::parse finds in it; `spelling'   *)
(* stands for all that two strings may differ in and still parse to the    *)
(* same URL (letter case of the host, a default port written out, dot      *)
(* segments), so two strings are equal when their records are.             *)
(***************************************************************************)
EXTENDS FiniteSets

CONSTANTS
  Hosts, Ports, Paths, Spellings,
  LoopbackHosts,   \* localhost, 127.0.0.1, [::1]
  NoHost

ASSUME RedirectsAssumption == LoopbackHosts \subseteq Hosts /\ NoHost \notin Hosts

\* Everything a client or an operator may write.  `padded' has surrounding
\* whitespace, `parses' is whether Url::parse takes it, `path' is the path
\* with the query, and `extra' what must not be there.
Uris == [scheme : {"https", "http", "private"}, host : Hosts \cup {NoHost},
         port : Ports, path : Paths, spelling : Spellings,
         extra : {"none", "fragment", "userinfo"},
         padded : BOOLEAN, parses : BOOLEAN]

\* Two strings name the same URL.
SameUrl(u, v) == [u EXCEPT !.spelling = v.spelling] = v

\* validate_redirect_uri
ValidRedirectUri(u) ==
  /\ ~u.padded /\ u.parses
  /\ u.scheme = "https" => u.host # NoHost
  /\ u.scheme = "http" => u.host \in LoopbackHosts
  /\ u.extra = "none"

\* Only the host is compared.
BugMatchesLoopbackEntry(allowed, u) ==
  /\ u.scheme = "http" /\ u.host \in LoopbackHosts
  /\ \E e \in allowed : e.scheme = "http" /\ e.host = u.host

\* matches_loopback_entry: any port, and any spelling.
MatchesLoopbackEntry(allowed, u) ==
  /\ u.scheme = "http" /\ u.host \in LoopbackHosts
  /\ \E e \in allowed : e.scheme = "http" /\ e.host = u.host /\ e.path = u.path

\* is_allowed_redirect_uri
IsAllowedRedirectUri(allowed, u) ==
  ValidRedirectUri(u) /\ (u \in allowed \/ MatchesLoopbackEntry(allowed, u))

\* parse_allowlist: one bad entry, or no entry, refuses the configuration.
\* The allow-list is the set of the entries, {} when it is refused.
ParseAllowlist(entries) ==
  IF \A u \in entries : ValidRedirectUri(u) THEN entries ELSE {}

\* register: refused unless every URI asked for is allowed.  The answer names
\* the URIs it confirms.
Register(configured, allowed, asked) ==
  IF ~configured THEN [status |-> 404, redirect_uris |-> {}]
  ELSE IF \E u \in asked : ~IsAllowedRedirectUri(allowed, u)
  THEN [status |-> 400, redirect_uris |-> {}]
  ELSE [status |-> 201, redirect_uris |-> asked]
=============================================================================
