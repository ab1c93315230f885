------------------------------ MODULE Sessions ------------------------------
(***************************************************************************)
(* The cap on live MCP sessions (session.rs).  Fresh `initialize' posts    *)
(* call CappedSessionManager::create_session, which counts the sessions of *)
(* rmcp's LocalSessionManager and creates one, under a gate; a session     *)
(* leaves the map when it is closed or has been idle for                   *)
(* SESSION_KEEP_ALIVE, without taking the gate.  Bug... definitions are    *)
(* mistakes the properties would notice; no specification uses them.       *)
(***************************************************************************)
EXTENDS Integers, FiniteSets

CONSTANTS
  Requests,     \* slots for concurrent `initialize' requests
  SessionIds,   \* ids rmcp may draw; a drawn id is one not in use
  MaxSessions   \* MAX_SESSIONS (256)

Free == "free"

ASSUME SessionsAssumption ==
  /\ IsFiniteSet(SessionIds)
  /\ MaxSessions \in Nat
  /\ Free \notin Requests

VARIABLES
  sessions,     \* the keys of LocalSessionManager.sessions
  create_gate,  \* the request that holds the gate
  pc            \* where each request is

vars == <<sessions, create_gate, pc>>

\* "idle": no request, or it has been answered, with a session id or
\* "session cap reached"; "count", "insert": it holds the gate.
Critical == {"count", "insert"}
PC == Critical \cup {"idle", "gate", "init"}

Init ==
  /\ sessions = {}
  /\ create_gate = Free
  /\ pc = [r \in Requests |-> "idle"]

Goto(r, l) == pc' = [pc EXCEPT ![r] = l]

\* A cancelled request keeps the gate.
BugRelease(r) ==
  create_gate' = IF create_gate = r /\ pc[r] # "insert" THEN Free
                 ELSE create_gate

\* The gate's guard is dropped on return and on cancellation.
Release(r) == create_gate' = IF create_gate = r THEN Free ELSE create_gate
-----------------------------------------------------------------------------
\* A POST without `mcp-session-id' that the initialize rate limit let
\* through reaches create_session and queues for the gate.
Initialize(r) ==
  /\ pc[r] = "idle"
  /\ Goto(r, "gate")
  /\ UNCHANGED <<sessions, create_gate>>

\* There is no gate.
BugLock(r) ==
  /\ pc[r] = "gate"
  /\ create_gate' = r
  /\ Goto(r, "count")
  /\ UNCHANGED sessions

Lock(r) ==
  /\ pc[r] = "gate"
  /\ create_gate = Free
  /\ create_gate' = r
  /\ Goto(r, "count")
  /\ UNCHANGED sessions

\* The count is read under the map's read lock, which is then released.
Count(r) ==
  /\ pc[r] = "count"
  /\ IF Cardinality(sessions) >= MaxSessions
     THEN Goto(r, "idle") /\ Release(r)
     ELSE Goto(r, "insert") /\ UNCHANGED create_gate
  /\ UNCHANGED sessions

\* LocalSessionManager::create_session (rmcp): a new id enters the map.
Create(r) ==
  /\ pc[r] = "insert"
  /\ \E s \in SessionIds \ sessions : sessions' = sessions \cup {s}
  /\ Release(r)
  /\ Goto(r, "init")

\* initialize_session answers the client; the session lives on.
Complete(r) ==
  /\ pc[r] = "init"
  /\ Goto(r, "idle")
  /\ UNCHANGED <<sessions, create_gate>>

\* The client hangs up at an await: the gate's guard is dropped, a session
\* already created stays until its idle timeout.
Disconnect(r) ==
  /\ pc[r] \in {"gate", "count", "insert", "init"}
  /\ Goto(r, "idle")
  /\ Release(r)
  /\ UNCHANGED sessions

\* close_session (the client's DELETE), or SESSION_KEEP_ALIVE without
\* traffic: at any moment, also between Count and Create of another.
SessionEnds(s) ==
  /\ s \in sessions
  /\ sessions' = sessions \ {s}
  /\ UNCHANGED <<create_gate, pc>>

Next ==
  \/ \E r \in Requests :
       \/ Initialize(r) \/ Lock(r) \/ Count(r) \/ Create(r) \/ Complete(r)
       \/ Disconnect(r)
  \/ \E s \in SessionIds : SessionEnds(s)

Spec == Init /\ [][Next]_vars

-----------------------------------------------------------------------------
\* The types of the variables.
TypeOK ==
  /\ sessions \subseteq SessionIds
  /\ create_gate \in Requests \cup {Free}
  /\ pc \in [Requests -> PC]

(***************************************************************************)
(* The cap is enforced atomically: however many requests count and create  *)
(* at once, and whatever is cancelled in between, there are never more     *)
(* than MAX_SESSIONS sessions.                                             *)
(***************************************************************************)
CapHolds == Cardinality(sessions) <= MaxSessions
=============================================================================
