--------------------------- MODULE RequestPipeline ---------------------------
(***************************************************************************)
(* A request on its way through mcp_routes (main.rs): the body limit,      *)
(* bearer_auth with the record of the bearer's last use (auth.rs,          *)
(* last_used.rs), the initialize limit, and then a new session, a call     *)
(* within one, or /token/introspect.  The session stage is module Sessions *)
(* itself, whose actions are steps of the pipeline; token validation is    *)
(* its outcome, which TokenValidation describes.  Bug... definitions are   *)
(* mistakes the properties would notice; no specification uses them.       *)
(***************************************************************************)
EXTENDS Sessions, Sequences

CONSTANTS
  Bearers,           \* bearer hashes presented to the server
  Valid,             \* those of tokens that are genuine
  Subs, SubOf,       \* Logto subjects, and the one each bearer belongs to
  Entries,           \* what an entry of X-Forwarded-For may be
  Text,              \* those of visible ASCII
  Addresses,         \* those that are an IP address
  Clients,           \* the addresses clients call from
  Claims,            \* X-Forwarded-For as a client may send it
  Sent,              \* what requests may be, a subset of Request
  Proxies,           \* what the proxies after the first append to it
  TrustedProxyHops,  \* Config.trusted_proxy_hops
  MaxEntries,        \* MAX_ENTRIES (1024)
  Burst,             \* MAX_INITIALIZES_PER_IDENTITY (32)
  None,
  MaxTime,           \* model bound: the clock stops here
  MaxRequests        \* model bound: requests that arrive

\* "fresh": a POST to /mcp without `mcp-session-id'; "call": one with it;
\* "introspect": GET /token/introspect.
Request == [kind : {"fresh", "call", "introspect"}, bearer : Bearers,
            from : Clients, claim : Claims]

\* The last line: the hop count is "the measured length of that chain".
ASSUME PipelineAssumption ==
  /\ IsFiniteSet(Requests) /\ IsFiniteSet(Bearers) /\ Valid \subseteq Bearers
  /\ SubOf \in [Bearers -> Subs]
  /\ Text \subseteq Entries /\ Addresses \subseteq Text
  /\ Claims \subseteq Seq(Entries) /\ Proxies \in Seq(Addresses)
  /\ Clients \subseteq Addresses /\ None \notin Entries
  /\ Sent \subseteq Request
  /\ MaxEntries \in Nat \ {0} /\ Burst \in Nat
  /\ MaxTime \in Nat /\ MaxRequests \in Nat
  /\ TrustedProxyHops = Len(Proxies) + 1

\* None is not an entry of the tracker.
ASSUME NoneAssumption == None \notin [at : Nat, ip : Clients \cup {None}]

VARIABLES
  now,
  arrivals,   \* requests so far
  stage,      \* where each request is
  req,        \* what it is
  stamp,      \* record's `now', read before the lock is taken
  last_used,  \* LastUsedTracker: bearer -> [at, ip], or None
  left,       \* subject -> tokens left in its initialize bucket
  recent,     \* history: bearer -> the uses recorded of it, but for those
              \* that were recorded before another one of them began
  due         \* history: sessions a subject may still open: Burst and one
              \* for each refill, less those created for it

pipeline == <<now, arrivals, stage, req, stamp, last_used, left, recent, due>>
pvars == <<vars, pipeline>>

\* A use of a bearer: whence, with which claim, and when its request came and
\* was recorded.
Use == [from : Clients, claim : Claims, since : Nat, until : Nat]

\* "idle": no request, or it has been answered, whatever the status; while
\* it is at "session", Sessions' pc has its state.
Stages == {"idle", "validate", "record", "limit", "session", "tool", "report"}

InFlight(r) == stage[r] # "idle"

PInit ==
  /\ Init
  /\ now = 0 /\ arrivals = 0
  /\ stage = [r \in Requests |-> "idle"]
  /\ req = [r \in Requests |-> None]
  /\ stamp = [r \in Requests |-> None]
  /\ last_used = [b \in Bearers |-> None]
  /\ left = [s \in Subs |-> Burst]
  /\ recent = [b \in Bearers |-> {}]
  /\ due = [s \in Subs |-> Burst]

To(r, l) ==
  /\ stage' = [stage EXCEPT ![r] = l]
  /\ req' = IF l = "idle" THEN [req EXCEPT ![r] = None] ELSE req
-----------------------------------------------------------------------------
\* A request that RequestBodyLimitLayer, which is outermost, lets through: it
\* announces no body over the limit.
Arrive(r, q) ==
  /\ ~InFlight(r) /\ arrivals < MaxRequests
  /\ arrivals' = arrivals + 1
  /\ stage' = [stage EXCEPT ![r] = "validate"]
  /\ req' = [req EXCEPT ![r] =
       [q |-> q, since |-> now, after |-> recent[q.bearer]]]
  /\ UNCHANGED <<vars, now, stamp, last_used, left, recent, due>>

\* Introspections are recorded like any other use.
BugIsUse(r) == TRUE

\* The use of a bearer that counts: any but the question when it was used.
IsUse(r) == req[r].q.kind # "introspect"

\* validate_token accepts the bearer; record reads the clock, and waits for
\* the map's write lock.
Accept(r) ==
  /\ stage[r] = "validate" /\ req[r].q.bearer \in Valid
  /\ IF IsUse(r) THEN To(r, "record") ELSE To(r, "report")
  /\ stamp' = [stamp EXCEPT ![r] = IF IsUse(r) THEN now ELSE @]
  /\ UNCHANGED <<vars, now, arrivals, last_used, left, recent, due>>

\* It refuses it (401), or the JWKS cannot be had (500).  No header, or one
\* that is not a Bearer's, is answered 401 as well.
Refuse(r) ==
  /\ stage[r] = "validate"
  /\ To(r, "idle")
  /\ UNCHANGED <<vars, now, arrivals, stamp, last_used, left, recent, due>>

\* The header as it reaches the pod, in one line: each proxy has appended the
\* address it was called from.
Xff(r) == req[r].q.claim \o <<req[r].q.from>> \o Proxies

\* HeaderValue::to_str reads the list, or none of it.
IsText(xff) == \A i \in 1..Len(xff) : xff[i] \in Text

\* parse_client_ip: the entry TrustedProxyHops in from the right.
ClientIp(xff) ==
  IF ~IsText(xff) \/ TrustedProxyHops = 0 \/ Len(xff) < TrustedProxyHops THEN None
  ELSE LET entry == xff[Len(xff) - TrustedProxyHops + 1]
       IN  IF entry \in Addresses THEN entry ELSE None

Tracked == {b \in Bearers : last_used[b] # None}

\* What a new key displaces in a full map: the oldest entry.
Victims(b) ==
  IF Cardinality(Tracked) >= MaxEntries /\ b \notin Tracked
  THEN {{v} : v \in {u \in Tracked :
                       \A w \in Tracked : last_used[u].at <= last_used[w].at}}
  ELSE {{}}

Entry(r) == [at |-> stamp[r], ip |-> ClientIp(Xff(r))]

\* record, under the write lock.
Record(r) ==
  /\ stage[r] = "record"
  /\ LET b == req[r].q.bearer
     IN  /\ \E gone \in Victims(b) :
              last_used' = [u \in Bearers |->
                 IF u = b THEN Entry(r)
                 ELSE IF u \in gone THEN None ELSE last_used[u]]
         /\ recent' =
              IF req[r].q.kind = "introspect" THEN recent
              ELSE [recent EXCEPT ![b] = (@ \ req[r].after) \cup
                      {[from |-> req[r].q.from, claim |-> req[r].q.claim,
                        since |-> req[r].since, until |-> now]}]
  /\ To(r, IF req[r].q.kind = "introspect" THEN "report" ELSE "limit")
  /\ stamp' = [stamp EXCEPT ![r] = None]
  /\ UNCHANGED <<vars, now, arrivals, left, due>>

\* The header is taken for the mark of a new session.
BugIsFresh(r) == req[r].q.kind = "call"

\* is_fresh_mcp_session_request
IsFresh(r) == req[r].q.kind = "fresh"

\* An empty bucket still gives.
BugLimited(r) == FALSE

\* InitializeLimiter::check, for the subject (the bucket is RateLimit's).
Limited(r) == IsFresh(r) /\ left[SubOf[req[r].q.bearer]] = 0

(***************************************************************************)
(* initialize_rate_limit: a fresh session costs its subject a token, and   *)
(* what is let through goes on to create_session, which may yet refuse it, *)
(* unless rmcp refuses it first: its body proves too large or is no        *)
(* initialize message.  A call goes on to rmcp, which finds its session or *)
(* does not.                                                               *)
(***************************************************************************)
InitializeLimit(r) ==
  /\ stage[r] = "limit"
  /\ left' = IF IsFresh(r) /\ ~Limited(r)
             THEN [left EXCEPT ![SubOf[req[r].q.bearer]] = @ - 1] ELSE left
  /\ IF Limited(r) THEN To(r, "idle") /\ UNCHANGED vars
     ELSE IF req[r].q.kind = "fresh"
     THEN \/ To(r, "session") /\ Initialize(r)
          \/ To(r, "idle") /\ UNCHANGED vars
     ELSE /\ To(r, "idle") \/ (sessions # {} /\ To(r, "tool"))
          /\ UNCHANGED vars
  /\ UNCHANGED <<now, arrivals, stamp, last_used, recent, due>>

\* create_session and initialize_session, step by step.
SessionStep(r) ==
  /\ stage[r] = "session"
  /\ \/ /\ Lock(r) \/ Count(r) \/ Complete(r)
        /\ UNCHANGED due
     \/ /\ Create(r)
        /\ due' = [due EXCEPT ![SubOf[req[r].q.bearer]] = @ - 1]
  /\ To(r, IF pc'[r] = "idle" THEN "idle" ELSE "session")
  /\ UNCHANGED <<now, arrivals, stamp, last_used, left, recent>>

\* The tool, or rmcp, answers.
ToolReturns(r) ==
  /\ stage[r] = "tool"
  /\ To(r, "idle")
  /\ UNCHANGED <<vars, now, arrivals, stamp, last_used, left, recent, due>>

\* token_introspect::handler shows last_used[bearer].
Report(r) ==
  /\ stage[r] = "report"
  /\ To(r, "idle")
  /\ UNCHANGED <<vars, now, arrivals, stamp, last_used, left, recent, due>>

\* The client hangs up; the request's future is dropped at an await.
HangUp(r) ==
  /\ \/ stage[r] \in {"validate", "tool"} /\ UNCHANGED vars
     \/ stage[r] = "session" /\ Disconnect(r)
  /\ To(r, "idle")
  /\ UNCHANGED <<now, arrivals, stamp, last_used, left, recent, due>>

\* INITIALIZE_REPLENISH, the unit of this clock: a bucket that is not full
\* wins one token back.
Refilled(s) == IF left[s] < Burst THEN 1 ELSE 0

Tick ==
  /\ now < MaxTime
  /\ now' = now + 1
  /\ left' = [s \in Subs |-> left[s] + Refilled(s)]
  /\ due' = [s \in Subs |-> due[s] + Refilled(s)]
  /\ UNCHANGED <<vars, arrivals, stage, req, stamp, last_used, recent>>

PNext ==
  \/ \E r \in Requests :
       \/ \E q \in Sent : Arrive(r, q)
       \/ Accept(r) \/ Refuse(r) \/ Record(r) \/ InitializeLimit(r)
       \/ SessionStep(r) \/ ToolReturns(r) \/ Report(r) \/ HangUp(r)
  \/ \E s \in SessionIds : SessionEnds(s) /\ UNCHANGED pipeline
  \/ Tick

PSpec == PInit /\ [][PNext]_pvars

(***************************************************************************)
(* Fairness: a runnable task runs, validate_token answers (its             *)
(* EveryRequestAnswered), tools and rmcp answer, and tokio's Mutex, which  *)
(* is FIFO, lets every waiter in.  Nothing is assumed of clients, of the   *)
(* clock, nor that sessions ever end.                                      *)
(***************************************************************************)
Proceed(r) ==
  \/ Accept(r) \/ Refuse(r) \/ Record(r) \/ InitializeLimit(r)
  \/ ToolReturns(r) \/ Report(r)
  \/ SessionStep(r) /\ pc[r] # "gate"

PFairSpec ==
  /\ PSpec
  /\ \A r \in Requests :
       WF_pvars(Proceed(r)) /\ SF_pvars(SessionStep(r) /\ pc[r] = "gate")
-----------------------------------------------------------------------------
\* The types of the variables.
PTypeOK ==
  /\ TypeOK
  /\ now \in 0..MaxTime /\ arrivals \in 0..MaxRequests
  /\ stage \in [Requests -> Stages]
  /\ req \in [Requests -> [q : Request, since : Nat, after : SUBSET Use]
                       \cup {None}]
  /\ stamp \in [Requests -> Nat \cup {None}]
  /\ last_used \in [Bearers -> [at : Nat, ip : Clients \cup {None}]
                               \cup {None}]
  /\ left \in [Subs -> 0..Burst]
  /\ recent \in [Bearers -> SUBSET Use]
  /\ due \in [Subs -> Int]

(***************************************************************************)
(* "The most recent successful introspection" (last_used.rs), as far as it *)
(* goes.  What /token/introspect shows is one accepted use of this bearer, *)
(* at its time and, unless the client sent a list that is not text, from   *)
(* the address it connected from: whatever else it claimed in              *)
(* X-Forwarded-For ("entries a client prepends cannot shift which one is   *)
(* chosen") and however often its owner has asked.  A list that is not     *)
(* text hides the address; nothing puts another in its place.  Two uses at *)
(* once may be recorded in either order, but no use is shown in place of   *)
(* one that began after it was recorded.  MAX_ENTRIES is never passed, and *)
(* a used bearer is missing only from a full map.                          *)
(***************************************************************************)
LatestUseShown ==
  /\ Cardinality(Tracked) <= MaxEntries
  /\ \A b \in Bearers :
       IF b \in Tracked
       THEN \E u \in recent[b] : /\ last_used[b].at \in u.since .. u.until
                                /\ last_used[b].ip =
                                     IF IsText(u.claim) THEN u.from ELSE None
       ELSE recent[b] = {} \/ Cardinality(Tracked) = MaxEntries

(***************************************************************************)
(* The limit on fresh sessions holds end to end: no subject opens more of  *)
(* them than a burst and what has been refilled, with requests cancelled,  *)
(* refused at the cap or racing between the limit and create_session.      *)
(***************************************************************************)
SessionsWithinQuota == \A s \in Subs : due[s] >= 0

\* Whatever stage a request is at, it is answered or its client hangs up.
RequestsAnswered == \A r \in Requests : InFlight(r) ~> ~InFlight(r)
=============================================================================
