------------------------------ MODULE Audiences -----------------------------
(***************************************************************************)
(* Which audience a token is asked for and which ones are accepted: the    *)
(* URLs of the configuration (config.rs), the metadata clients discover    *)
(* (oauth_metadata.rs), the `resource' parameter the proxy sends to Logto  *)
(* (oauth_proxy.rs).  These are compared as strings, so a URL is the       *)
(* sequence of an origin and what follows it.                              *)
(***************************************************************************)
EXTENDS Sequences, SequencesExt, FiniteSetsExt

CONSTANTS
  Absolute,   \* origins is_absolute_http_uri takes
  Secure      \* those with https, or on a loopback host

ASSUME AudiencesAssumption ==
  Secure \subseteq Absolute /\ "/" \notin Absolute

\* is_absolute_http_uri; `stalwart', the name of the Logto API, is not one.
IsAbsoluteHttpUri(url) == url # <<>> /\ Head(url) \in Absolute

\* validate_url
ValidUrl(url) == url # <<>> /\ Head(url) \in Secure

\* strip_trailing_slash
Strip(url) ==
  SubSeq(url, 1, Max({0} \cup {i \in DOMAIN url : url[i] # "/"}))

\* mcp_resource
McpResource(origin) == Strip(origin) \o <<"/mcp">>

\* Config::from_env, of the variables that hold URLs: None, and the server
\* does not start, or the configuration.  An empty audience is an unset one.
FromEnv(env) ==
  LET url == Strip(env.resource)
      unset == env.audience = <<>>
  IN  {c \in {[resource_url |-> url,
               authorization_server |-> Strip(env.server),
               stalwart_audience |-> IF unset THEN url ELSE Strip(env.audience)]} :
         /\ ValidUrl(c.resource_url) /\ ValidUrl(c.authorization_server)
         /\ unset \/ IsAbsoluteHttpUri(env.audience)}

\* The bare origin and the audience sent to Logto, not what is advertised.
BugAcceptedTokenAudiences(c) == {c.resource_url, c.stalwart_audience}

\* accepted_token_audiences
AcceptedTokenAudiences(c) ==
  {c.resource_url, McpResource(c.resource_url), c.stalwart_audience}

\* What the client asks for is left to it.
BugApplyDavResource(pairs, audience) ==
  IF \E i \in DOMAIN pairs : pairs[i].key = "resource" THEN pairs
  ELSE Append(pairs, [key |-> "resource", value |-> audience])

\* apply_dav_resource, of a request's parameters [key, value].
ApplyDavResource(pairs, audience) ==
  LET named == {i \in DOMAIN pairs : pairs[i].key = "resource"}
  IN  IF ~IsAbsoluteHttpUri(audience) THEN pairs
      ELSE IF named = {} THEN Append(pairs, [key |-> "resource", value |-> audience])
      ELSE [i \in DOMAIN pairs |->
              IF i \in named THEN [pairs[i] EXCEPT !.value = audience] ELSE pairs[i]]

\* ProtectedResourceMetadata::from_config
ProtectedResource(c) ==
  [resource |-> McpResource(c.resource_url), authorization_servers |-> {c.resource_url}]

\* AuthorizationServerMetadata::from_config, without the constant lists.
ServerMetadata(c, registers) ==
  [issuer |-> c.resource_url,
   authorization_endpoint |-> Append(c.resource_url, "/authorize"),
   token_endpoint |-> Append(c.resource_url, "/token"),
   registration_endpoint |-> IF registers THEN {Append(c.resource_url, "/register")} ELSE {},
   jwks_uri |-> Append(c.authorization_server, "/jwks")]
=============================================================================
