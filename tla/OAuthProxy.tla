----------------------------- MODULE OAuthProxy -----------------------------
(***************************************************************************)
(* The OAuth proxy (oauth_proxy.rs): /authorize remembers where a client   *)
(* wants its answer under a random state and sends the browser to Logto,   *)
(* /oauth/callback takes the memory and bounces the browser back, /token   *)
(* relays the exchange of the code, and of refresh tokens.  Browsers       *)
(* reload and lag, so callbacks come late, repeatedly, or never; clients   *)
(* start again and repeat themselves.  Bug... definitions are mistakes the *)
(* properties would notice; no specification uses them.                    *)
(***************************************************************************)
EXTENDS Integers, FiniteSets

CONSTANTS
  Flows,        \* sign-in attempts: a redirect_uri and a client state each
  Registered,   \* the flows /authorize admits: a redirect_uri on the
                \* allow-list, a state of at most MAX_CLIENT_STATE_BYTES
  States,       \* what random_state may draw, never the same twice
  PendingTtl,   \* PENDING_TTL (600 s)
  PendingCap,   \* PENDING_CAP (2048)
  None,
  MaxTime       \* model bound: the clock stops here

ASSUME OAuthAssumption ==
  /\ Registered \subseteq Flows
  /\ IsFiniteSet(States)
  /\ None \notin States /\ None \notin Flows
  /\ PendingTtl \in Nat /\ PendingCap \in Nat /\ MaxTime \in Nat

VARIABLES
  now,
  pending,    \* state -> [flow, created], or None
  drawn,      \* states drawn so far
  returned,   \* Logto: state -> what its redirect to our callback carries
  spent,      \* Logto: codes exchanged; a code is named by its state
  client,     \* what each flow's client has seen last
  code,       \* flow -> the code it was redirected with
  renewable,  \* the flows whose client holds a refresh token
  owner,      \* history: state -> the flow it was drawn for
  redirects   \* history: how often a state led to a redirect (saturating)

vars == <<now, pending, drawn, returned, spent, client, code, renewable, owner,
          redirects>>

\* "400", "503", "502": an error from the proxy; "login": at Logto; "code":
\* back with a code; "tokens": 2xx with Logto's body; "empty": 2xx without
\* it; "denied": Logto's error, relayed.
Client == {"start", "400", "503", "502", "login", "code", "tokens", "empty",
           "denied"}

Pending == {s \in States : pending[s] # None}
Unexpired(s) == now - pending[s].created < PendingTtl

Init ==
  /\ now = 0
  /\ pending = [s \in States |-> None]
  /\ drawn = {} /\ spent = {} /\ renewable = {}
  /\ returned = [s \in States |-> None]
  /\ client = [f \in Flows |-> "start"]
  /\ code = [f \in Flows |-> None]
  /\ owner = [s \in States |-> None]
  /\ redirects = [s \in States |-> 0]

Sees(f, x) == client' = [client EXCEPT ![f] = x]
-----------------------------------------------------------------------------
\* The deadline is kept for the time of creation.
BugEntry(f) == [flow |-> f, created |-> now + PendingTtl]

Entry(f) == [flow |-> f, created |-> now]

\* A counter that starts again instead of random_state.
BugFreshStates == States

\* random_state: 24 random bytes, in effect never drawn before.
FreshStates == States \ drawn

\* Expired entries are never swept.
BugAfterSweep == Pending

\* A full map is cleared, sign-ins under way included.
BugSweepAll == IF Cardinality(Pending) >= PendingCap THEN {} ELSE Pending

\* The entries insert keeps: all, unless the map is full.
AfterSweep ==
  {s \in Pending : Cardinality(Pending) >= PendingCap => Unexpired(s)}

\* An entry is added without a second look at the size.
BugRoom == TRUE

Room == Cardinality(AfterSweep) < PendingCap

(***************************************************************************)
(* GET /authorize: refused for an unregistered redirect_uri, or when the   *)
(* map is full of unexpired entries; else the pending entry is made and    *)
(* the browser sent to Logto with our state.  The sweep stays done when    *)
(* the flow is refused after all.                                          *)
(***************************************************************************)
Authorize(f) ==
  /\ IF f \notin Registered
     THEN Sees(f, "400") /\ UNCHANGED <<pending, drawn, owner>>
     ELSE \E s \in FreshStates :
            /\ pending' = [x \in States |->
                 IF Room /\ x = s THEN Entry(f)
                 ELSE IF x \in AfterSweep THEN pending[x] ELSE None]
            /\ Sees(f, IF Room THEN "login" ELSE "503")
            /\ drawn' = IF Room THEN drawn \cup {s} ELSE drawn
            /\ owner' = IF Room THEN [owner EXCEPT ![s] = f] ELSE owner
  /\ UNCHANGED <<now, returned, spent, code, renewable, redirects>>

\* At Logto (external) the user signs in, or does not; its redirect carries
\* a code or an error, and the browser may follow it any number of times.
LogtoReturns(s, x) ==
  /\ s \in drawn /\ returned[s] = None
  /\ returned' = [returned EXCEPT ![s] = x]
  /\ UNCHANGED <<now, pending, drawn, spent, client, code, renewable, owner,
                 redirects>>

\* The entry is looked up and left for the next callback.
BugTaken(s) == pending

\* take: the entry leaves the map, expired or not.
Taken(s) == [pending EXCEPT ![s] = None]

Takes(s) == pending[s] # None /\ Unexpired(s)

(***************************************************************************)
(* GET /oauth/callback: with an unknown or expired state, 400; else the    *)
(* browser goes to the redirect_uri remembered under the state, with the   *)
(* code or the error and the client's own state.                           *)
(***************************************************************************)
Callback(s) ==
  /\ returned[s] # None
  /\ pending' = Taken(s)
  /\ IF Takes(s)
     THEN /\ IF returned[s] = "code"
             THEN /\ Sees(pending[s].flow, "code")
                  /\ code' = [code EXCEPT ![pending[s].flow] = s]
             ELSE Sees(pending[s].flow, "denied") /\ UNCHANGED code
          /\ redirects' = [redirects EXCEPT ![s] = IF @ < 2 THEN @ + 1 ELSE @]
     ELSE UNCHANGED <<client, code, redirects>>
  /\ UNCHANGED <<now, drawn, returned, spent, renewable, owner>>

\* A token request exchanges a code or a refresh token, and names a
\* redirect_uri on the allow-list, another one, or none.
Grants == {"authorization_code", "refresh_token"}
Uris == {"registered", "foreign", "none"}

\* What token refuses itself, with 400.
BadRequest(grant, uri) ==
  uri = "foreign" \/ (grant = "authorization_code" /\ uri = "none")

Holds(f, grant) ==
  IF grant = "authorization_code" THEN code[f] # None ELSE f \in renewable

(***************************************************************************)
(* POST /token: what is not refused goes to Logto, any redirect_uri in it  *)
(* replaced by our callback, which Logto saw at /authorize.  Logto takes a *)
(* code once, and a refresh token until it sees fit.  The request or the   *)
(* reply may be lost (502); a reply whose body cannot be read is relayed   *)
(* with its status and no body.                                            *)
(***************************************************************************)
Token(f, grant, uri) ==
  /\ Holds(f, grant)
  /\ \/ /\ BadRequest(grant, uri)
        /\ Sees(f, "400") /\ UNCHANGED <<spent, renewable>>
     \/ /\ ~BadRequest(grant, uri)
        /\ Sees(f, "502") /\ UNCHANGED <<spent, renewable>>
     \/ /\ ~BadRequest(grant, uri)
        /\ grant = "authorization_code" => code[f] \in spent
        /\ Sees(f, "denied") /\ UNCHANGED <<spent, renewable>>
     \/ /\ ~BadRequest(grant, uri)
        /\ grant = "authorization_code" => code[f] \notin spent
        /\ spent' = IF grant = "authorization_code" THEN spent \cup {code[f]} ELSE spent
        /\ \E x \in {"tokens", "empty", "502"} :
             /\ Sees(f, x)
             /\ renewable' = IF x = "tokens" THEN renewable \cup {f} ELSE renewable
  /\ UNCHANGED <<now, pending, drawn, returned, code, owner, redirects>>

Tick ==
  /\ now < MaxTime
  /\ now' = now + 1
  /\ UNCHANGED <<pending, drawn, returned, spent, client, code, renewable, owner,
                 redirects>>

Next ==
  \/ \E f \in Flows :
       \/ Authorize(f)
       \/ \E grant \in Grants, uri \in Uris : Token(f, grant, uri)
  \/ \E s \in States : Callback(s) \/ \E x \in {"code", "error"} : LogtoReturns(s, x)
  \/ Tick

Spec == Init /\ [][Next]_vars
-----------------------------------------------------------------------------
\* The types of the variables.
TypeOK ==
  /\ now \in Nat
  /\ pending \in [States -> [flow : Flows, created : 0..now] \cup {None}]
  /\ drawn \subseteq States /\ spent \subseteq drawn
  /\ returned \in [States -> {None, "code", "error"}]
  /\ client \in [Flows -> Client]
  /\ code \in [Flows -> States \cup {None}]
  /\ renewable \subseteq Flows
  /\ owner \in [States -> Flows \cup {None}]
  /\ redirects \in [States -> 0..2]

(***************************************************************************)
(* A code goes to the client that asked: with any number of sign-ins under *)
(* way, retried and reloaded, a flow is only ever redirected with a code   *)
(* obtained under a state drawn for it, and is a registered one.           *)
(***************************************************************************)
RightClient ==
  \A f \in Flows :
    code[f] # None => owner[code[f]] = f /\ f \in Registered

\* `take' makes a state good for one redirect, however often the browser
\* repeats the callback.
RedirectedOnce == \A s \in States : redirects[s] <= 1

\* PENDING_CAP bounds the map.
PendingBounded == Cardinality(Pending) <= PendingCap

(***************************************************************************)
(* A sign-in under way is never sacrificed: an unexpired entry leaves the  *)
(* map only by its own callback, not to make room for others.              *)
(***************************************************************************)
SignInsNotEvicted ==
  [][ \A s \in States :
        pending[s] # None /\ Unexpired(s) /\ pending'[s] = None
          => redirects'[s] = redirects[s] + 1 ]_vars

(***************************************************************************)
(* "too many pending authorizations" is only said when PENDING_CAP entries *)
(* are unexpired: abandoned sign-ins do not keep the door shut.            *)
(***************************************************************************)
BusyOnlyWhenFull ==
  [][ \A f \in Flows :
        client[f] # "503" /\ client'[f] = "503"
          => Cardinality({s \in Pending : Unexpired(s)}) >= PendingCap ]_vars

(***************************************************************************)
(* POST /token's comment: "relay the code/refresh exchange to Logto".  A   *)
(* client that is answered 2xx has got Logto's answer.                     *)
(***************************************************************************)
TokenRelayed == \A f \in Flows : client[f] # "empty"
=============================================================================
