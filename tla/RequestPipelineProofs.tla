------------------------ MODULE RequestPipelineProofs -----------------------
(***************************************************************************)
(* The session cap, for any number of concurrent requests and any cap.     *)
(* CapHolds is not inductive: Create adds a session on the strength of an  *)
(* earlier count.  Room says that what Count saw is still true, because    *)
(* only the holder of the gate adds sessions.                              *)
(*                                                                         *)
(* The pipeline implements Sessions, so the session cap holds end to end;  *)
(* and what /token/introspect shows is the latest use of the bearer, for   *)
(* any number of requests, bearers and proxies.  For that, a request that  *)
(* is about to be recorded is a use, and has read the clock since it came  *)
(* (Recordable); and the caller's address is where parse_client_ip looks   *)
(* for it, however long the list the client has sent, if it can be read.   *)
(***************************************************************************)
EXTENDS RequestPipeline, FiniteSetTheorems, SequenceTheorems, TLAPS

GateExclusive == \A r \in Requests : pc[r] \in Critical => create_gate = r

Room ==
  \A r \in Requests : pc[r] = "insert" => Cardinality(sessions) < MaxSessions

IInv == TypeOK /\ GateExclusive /\ CapHolds /\ Room

\* A new server has no session and a free gate.
LEMMA IInvInit == Init => IInv
  BY SessionsAssumption, FS_EmptySet
  DEF Init, IInv, TypeOK, GateExclusive, CapHolds, Room, PC, Critical

\* What one session more or less does to the count.
LEMMA Counting ==
  ASSUME TypeOK, NEW s \in SessionIds
  PROVE  /\ Cardinality(sessions) \in Nat
         /\ s \notin sessions
              => Cardinality(sessions \cup {s}) = Cardinality(sessions) + 1
         /\ s \in sessions
              => Cardinality(sessions \ {s}) = Cardinality(sessions) - 1
  <1>1. IsFiniteSet(sessions)
    BY SessionsAssumption, FS_Subset DEF TypeOK
  <1> QED BY <1>1, FS_CardinalityType, FS_AddElement, FS_RemoveElement

\* Every step keeps IInv: only the holder of the gate adds a session.
LEMMA IInvStep == IInv /\ [Next]_vars => IInv'
  <1> SUFFICES ASSUME IInv, [Next]_vars PROVE IInv'
    OBVIOUS
  <1> USE SessionsAssumption
  <1>0. Cardinality(sessions) \in Nat
    BY FS_Subset, FS_CardinalityType DEF IInv, TypeOK
  <1> USE DEF IInv, TypeOK, GateExclusive, CapHolds, Room, PC, Critical
  <1>1. ASSUME NEW r \in Requests, Initialize(r) PROVE IInv'
    BY <1>1 DEF Initialize, Goto
  <1>2. ASSUME NEW r \in Requests, Lock(r) PROVE IInv'
    BY <1>2 DEF Lock, Goto
  <1>3. ASSUME NEW r \in Requests, Count(r) PROVE IInv'
    BY <1>0, <1>3 DEF Count, Goto, Release
  <1>4. ASSUME NEW r \in Requests, Create(r) PROVE IInv'
    <2>1. PICK s \in SessionIds \ sessions : sessions' = sessions \cup {s}
      BY <1>4 DEF Create
    <2>2. Cardinality(sessions') = Cardinality(sessions) + 1
      BY <2>1, Counting
    <2>3. \A q \in Requests : pc'[q] \notin Critical
      BY <1>4 DEF Create, Goto
    <2> QED BY <1>0, <1>4, <2>1, <2>2, <2>3 DEF Create, Goto, Release
  <1>5. ASSUME NEW r \in Requests, Complete(r) PROVE IInv'
    BY <1>5 DEF Complete, Goto
  <1>6. ASSUME NEW r \in Requests, Disconnect(r) PROVE IInv'
    BY <1>6 DEF Disconnect, Goto, Release
  <1>7. ASSUME NEW s \in SessionIds, SessionEnds(s) PROVE IInv'
    <2>1. Cardinality(sessions') = Cardinality(sessions) - 1
      BY <1>7, Counting DEF SessionEnds
    <2>2. TypeOK' /\ GateExclusive'
      BY <1>7 DEF SessionEnds
    <2>3. Cardinality(sessions') < MaxSessions
      BY <1>0, <2>1
    <2>4. CapHolds' /\ Room'
      BY <1>0, <2>1, <2>3
    <2> QED BY <2>2, <2>4
  <1>8. CASE UNCHANGED vars
    BY <1>8 DEF vars
  <1> QED BY <1>1, <1>2, <1>3, <1>4, <1>5, <1>6, <1>7, <1>8 DEF Next

\* MAX_SESSIONS is never exceeded.
THEOREM SessionCap == Spec => []CapHolds
  <1>1. IInv => CapHolds
    BY DEF IInv
  <1> QED BY <1>1, IInvInit, IInvStep, PTL DEF Spec
-----------------------------------------------------------------------------
\* Whatever the pipeline does to the sessions, the session manager does it.
LEMMA StepOfSessions == [PNext]_pvars => [Next]_vars
  <1> SUFFICES ASSUME [PNext]_pvars PROVE Next \/ UNCHANGED vars
    OBVIOUS
  <1>1. ASSUME NEW r \in Requests, NEW q \in Sent, Arrive(r, q)
        PROVE  UNCHANGED vars
    BY <1>1 DEF Arrive
  <1>2. ASSUME NEW r \in Requests,
               Accept(r) \/ Refuse(r) \/ Record(r) \/ ToolReturns(r) \/ Report(r)
        PROVE  UNCHANGED vars
    BY <1>2 DEF Accept, Refuse, Record, ToolReturns, Report
  <1>3. ASSUME NEW r \in Requests, InitializeLimit(r) PROVE Next \/ UNCHANGED vars
    BY <1>3 DEF InitializeLimit, Next
  <1>4. ASSUME NEW r \in Requests, SessionStep(r) PROVE Next
    BY <1>4 DEF SessionStep, Next
  <1>5. ASSUME NEW r \in Requests, HangUp(r) PROVE Next \/ UNCHANGED vars
    BY <1>5 DEF HangUp, Next
  <1>6. ASSUME NEW s \in SessionIds, SessionEnds(s) PROVE Next
    BY <1>6 DEF Next
  <1>7. CASE Tick
    BY <1>7 DEF Tick
  <1>8. CASE UNCHANGED pvars
    BY <1>8 DEF pvars
  <1> QED BY <1>1, <1>2, <1>3, <1>4, <1>5, <1>6, <1>7, <1>8 DEF PNext

\* The session stage of the pipeline is the session manager.
THEOREM PipelineIsSessions == PSpec => Spec
  <1>1. PInit => Init
    BY DEF PInit
  <1> QED BY <1>1, StepOfSessions, PTL DEF PSpec, Spec

\* MAX_SESSIONS is never exceeded, whatever the stages before let through,
\* refuse or lose.
THEOREM PipelineCap == PSpec => []CapHolds
  BY PipelineIsSessions, SessionCap, PTL
-----------------------------------------------------------------------------
\* The hop count finds the caller: the client's own entries lie to the left.
\* They can only make the list unreadable.
LEMMA CallersAddress ==
  ASSUME NEW r \in Requests, req[r].q \in Request
  PROVE  ClientIp(Xff(r)) = IF IsText(req[r].q.claim) THEN req[r].q.from ELSE None
  <1> DEFINE claim == req[r].q.claim
  <1> DEFINE from == req[r].q.from
  <1>1. /\ claim \in Seq(Entries) /\ from \in Addresses /\ Proxies \in Seq(Addresses)
        /\ from \in Text /\ from \in Entries
        /\ \A i \in 1..Len(Proxies) : Proxies[i] \in Text /\ Proxies[i] \in Entries
    BY PipelineAssumption DEF Request
  <1>2. Proxies \in Seq(Entries)
    BY PipelineAssumption, <1>1
  <1>3. <<from>> \in Seq(Entries) /\ Len(<<from>>) = 1 /\ <<from>>[1] = from
    BY <1>1
  <1> DEFINE left_part == claim \o <<from>>
  <1> HIDE DEF claim, from
  <1>4. /\ left_part \in Seq(Entries) /\ Len(left_part) = Len(claim) + 1
        /\ left_part[Len(left_part)] = from
        /\ \A i \in 1..Len(claim) : left_part[i] = claim[i]
    BY <1>1, <1>3, ConcatProperties
  <1> HIDE DEF left_part
  <1>5. Len(left_part) \in Nat /\ Len(Proxies) \in Nat /\ Len(claim) \in Nat
    BY <1>1, <1>4
  <1>6. /\ Len(left_part \o Proxies) = Len(left_part) + Len(Proxies)
        /\ (left_part \o Proxies)[Len(left_part)] = left_part[Len(left_part)]
        /\ \A i \in 1..Len(left_part) : (left_part \o Proxies)[i] = left_part[i]
        /\ \A i \in 1 .. Len(left_part) + Len(Proxies) :
             i > Len(left_part) => (left_part \o Proxies)[i] = Proxies[i - Len(left_part)]
    <2>1. Len(left_part) \in 1 .. Len(left_part) + Len(Proxies)
      BY <1>1, <1>4, <1>5
    <2>2. left_part \in Seq(Entries) /\ Proxies \in Seq(Entries)
      BY <1>4, <1>2
    <2>3. Len(left_part \o Proxies) = Len(left_part) + Len(Proxies)
      BY <2>2, ConcatProperties
    <2>4. \A i \in 1 .. Len(left_part) + Len(Proxies) :
            (left_part \o Proxies)[i] = IF i <= Len(left_part) THEN left_part[i]
                                        ELSE Proxies[i - Len(left_part)]
      BY <2>2, ConcatProperties
    <2>5. \A i \in 1..Len(left_part) : (left_part \o Proxies)[i] = left_part[i]
      BY <1>5, <2>4
    <2> QED BY <1>4, <1>5, <2>1, <2>3, <2>4, <2>5
  <1>7. Xff(r) = left_part \o Proxies
    BY DEF Xff, left_part, claim, from
  <1>8. IsText(left_part \o Proxies) <=> IsText(claim)
    <2>1. ASSUME IsText(left_part \o Proxies), NEW i \in 1..Len(claim)
          PROVE  claim[i] \in Text
      BY <1>4, <1>5, <1>6, <2>1 DEF IsText
    <2>2. ASSUME IsText(claim), NEW i \in 1..Len(left_part \o Proxies)
          PROVE  (left_part \o Proxies)[i] \in Text
      <3>1. CASE i <= Len(claim)
        BY <1>4, <1>5, <1>6, <2>2, <3>1 DEF IsText
      <3>2. CASE i = Len(left_part)
        BY <1>1, <1>4, <1>6, <3>2
      <3>3. CASE i > Len(left_part)
        BY <1>1, <1>5, <1>6, <3>3
      <3> QED BY <1>4, <1>5, <1>6, <3>1, <3>2, <3>3
    <2> QED BY <2>1, <2>2 DEF IsText
  <1>9. ClientIp(left_part \o Proxies) = IF IsText(claim) THEN from ELSE None
    BY <1>1, <1>4, <1>5, <1>6, <1>8, PipelineAssumption DEF ClientIp
  <1> QED BY <1>7, <1>9 DEF from, claim
-----------------------------------------------------------------------------
\* A request under way is known; one that waits to be recorded is a use, and
\* has read the clock since it came.
Recordable ==
  \A r \in Requests :
    /\ stage[r] # "idle" =>
         req[r] \in [q : Request, since : 0..now, after : SUBSET Use]
    /\ stage[r] = "record" => IsUse(r) /\ stamp[r] \in req[r].since .. now

PInv == IInv /\ PTypeOK /\ Recordable /\ LatestUseShown

\* A new server has seen no use and no request.
LEMMA PInvInit == PInit => PInv
  <1> SUFFICES ASSUME PInit PROVE PInv
    OBVIOUS
  <1>1. IInv
    BY IInvInit DEF PInit
  <1>2. Tracked = {}
    BY DEF PInit, Tracked
  <1>3. PTypeOK /\ Recordable
    BY <1>1, PipelineAssumption DEF PInit, IInv, PTypeOK, Recordable, Stages
  <1>4. LatestUseShown
    BY <1>2, FS_EmptySet, PipelineAssumption DEF PInit, LatestUseShown
  <1> QED BY <1>1, <1>3, <1>4 DEF PInv

\* A step that leaves the tracker and its history alone.
LEMMA ShownStays ==
  ASSUME LatestUseShown, UNCHANGED <<last_used, recent>>
  PROVE  LatestUseShown'
  BY DEF LatestUseShown, Tracked

\* Recording a use b makes room first in a full map, and never more.
LEMMA Tracking ==
  ASSUME NEW b \in Bearers, NEW e \in [at : Nat, ip : Clients \cup {None}],
         NEW gone \in Victims(b), Cardinality(Tracked) <= MaxEntries,
         last_used' = [u \in Bearers |-> IF u = b THEN e
                                         ELSE IF u \in gone THEN None ELSE last_used[u]]
  PROVE  /\ Tracked' = (Tracked \ gone) \cup {b}
         /\ Cardinality(Tracked') <= MaxEntries
         /\ Cardinality(Tracked) = MaxEntries \/ gone # {}
              => Cardinality(Tracked') = MaxEntries
  <1>1. b \notin gone
    BY DEF Victims
  <1>2. Tracked' = (Tracked \ gone) \cup {b}
    BY <1>1, NoneAssumption DEF Tracked
  <1>3. IsFiniteSet(Tracked) /\ Cardinality(Tracked) \in Nat /\ MaxEntries \in Nat
    BY PipelineAssumption, FS_Subset, FS_CardinalityType DEF Tracked
  <1>4. CASE b \in Tracked
    <2>1. gone = {}
      BY <1>4 DEF Victims
    <2>2. Tracked' = Tracked
      BY <1>2, <1>4, <2>1
    <2> QED BY <1>2, <2>1, <2>2
  <1>5. CASE b \notin Tracked /\ Cardinality(Tracked) < MaxEntries
    <2>1. gone = {}
      BY <1>3, <1>5 DEF Victims
    <2>2. Tracked' = Tracked \cup {b}
      BY <1>2, <2>1
    <2>3. Cardinality(Tracked') = Cardinality(Tracked) + 1
      BY <1>3, <1>5, <2>2, FS_AddElement
    <2> QED BY <1>2, <1>3, <1>5, <2>1, <2>3
  <1>6. CASE b \notin Tracked /\ Cardinality(Tracked) = MaxEntries
    <2>1. PICK v \in Tracked : gone = {v}
      BY <1>3, <1>6 DEF Victims
    <2>2. IsFiniteSet(Tracked \ {v}) /\ Cardinality(Tracked \ {v}) = Cardinality(Tracked) - 1
      BY <1>3, FS_RemoveElement
    <2>3. Cardinality((Tracked \ {v}) \cup {b}) = Cardinality(Tracked \ {v}) + 1
      BY <1>6, <2>2, FS_AddElement
    <2>4. Cardinality(Tracked') = MaxEntries
      BY <1>2, <1>3, <1>6, <2>1, <2>2, <2>3
    <2> QED BY <1>2, <1>3, <2>4
  <1> QED BY <1>3, <1>4, <1>5, <1>6

\* record: the use becomes the bearer's latest.
LEMMA RecordShows ==
  ASSUME PInv, NEW r \in Requests, Record(r)
  PROVE  LatestUseShown' /\ last_used' \in [Bearers -> [at : Nat, ip : Clients \cup {None}]
                                                      \cup {None}]
         /\ recent' \in [Bearers -> SUBSET Use]
  <1> DEFINE b == req[r].q.bearer
  <1> DEFINE e == Entry(r)
  <1> DEFINE use == [from |-> req[r].q.from, claim |-> req[r].q.claim,
                     since |-> req[r].since, until |-> now]
  <1> DEFINE ip == IF IsText(req[r].q.claim) THEN req[r].q.from ELSE None
  <1>1. /\ req[r].q \in Request /\ req[r].since \in 0..now /\ now \in Nat
        /\ IsUse(r) /\ stamp[r] \in req[r].since .. now
    BY PipelineAssumption DEF PInv, PTypeOK, Recordable, Record
  <1>2. /\ b \in Bearers /\ use \in Use
        /\ e = [at |-> stamp[r], ip |-> ip]
        /\ e \in [at : Nat, ip : Clients \cup {None}]
    BY <1>1, CallersAddress DEF Request, Use, Entry
  <1>3. PICK gone \in Victims(b) :
          last_used' = [u \in Bearers |-> IF u = b THEN e
                                          ELSE IF u \in gone THEN None ELSE last_used[u]]
    BY DEF Record
  <1>4. recent' = [recent EXCEPT ![b] = (@ \ req[r].after) \cup {use}]
    BY <1>1 DEF Record, IsUse
  <1> HIDE DEF b, e, use
  <1>5. recent \in [Bearers -> SUBSET Use] /\ recent' \in [Bearers -> SUBSET Use]
    BY <1>2, <1>4 DEF PInv, PTypeOK
  <1>6. last_used' \in [Bearers -> [at : Nat, ip : Clients \cup {None}] \cup {None}]
    BY <1>2, <1>3 DEF PInv, PTypeOK
  <1>7. /\ Tracked' = (Tracked \ gone) \cup {b}
        /\ Cardinality(Tracked') <= MaxEntries
        /\ Cardinality(Tracked) = MaxEntries \/ gone # {}
             => Cardinality(Tracked') = MaxEntries
    BY <1>2, <1>3, Tracking DEF PInv, LatestUseShown
  <1>8. ASSUME NEW u \in Bearers, u \in Tracked'
        PROVE  \E v \in recent'[u] : /\ last_used'[u].at \in v.since .. v.until
                                     /\ last_used'[u].ip = IF IsText(v.claim) THEN v.from ELSE None
    <2>1. CASE u = b
      <3>1. use \in recent'[u] /\ last_used'[u] = e
        BY <1>2, <1>3, <1>4, <1>5, <2>1
      <3>2. e.at \in use.since .. use.until /\ e.ip = IF IsText(use.claim) THEN use.from ELSE None
        BY <1>1, <1>2 DEF use
      <3> QED BY <3>1, <3>2
    <2>2. CASE u # b
      <3>1. u \in Tracked /\ recent'[u] = recent[u] /\ last_used'[u] = last_used[u]
        BY <1>3, <1>4, <1>5, <1>7, <1>8, <2>2
      <3> QED BY <3>1 DEF PInv, LatestUseShown
    <2> QED BY <2>1, <2>2
  <1>9. ASSUME NEW u \in Bearers, u \notin Tracked'
        PROVE  recent'[u] = {} \/ Cardinality(Tracked') = MaxEntries
    <2>1. u # b /\ recent'[u] = recent[u]
      BY <1>4, <1>5, <1>7, <1>9
    <2>2. CASE u \in Tracked
      BY <1>7, <1>9, <2>2
    <2>3. CASE u \notin Tracked
      BY <1>7, <2>1, <2>3 DEF PInv, LatestUseShown
    <2> QED BY <2>2, <2>3
  <1> QED BY <1>5, <1>6, <1>7, <1>8, <1>9 DEF LatestUseShown

\* Every step of the pipeline keeps PInv.
LEMMA PInvStep == PInv /\ [PNext]_pvars => PInv'
  <1> SUFFICES ASSUME PInv, [PNext]_pvars PROVE PInv'
    OBVIOUS
  <1>0. IInv' /\ TypeOK'
    BY IInvStep, StepOfSessions DEF PInv, IInv
  <1> USE PipelineAssumption
  <1>1. ASSUME NEW r \in Requests, NEW q \in Sent, Arrive(r, q) PROVE PInv'
    <2> DEFINE new == [q |-> q, since |-> now, after |-> recent[q.bearer]]
    <2>0. q \in Request /\ q.bearer \in Bearers
      BY DEF Request
    <2>1. /\ new \in [q : Request, since : 0..now, after : SUBSET Use]
          /\ new \in [q : Request, since : Nat, after : SUBSET Use]
      BY <2>0 DEF PInv, PTypeOK
    <2>2. /\ stage' = [stage EXCEPT ![r] = "validate"] /\ req' = [req EXCEPT ![r] = new]
          /\ arrivals < MaxRequests /\ arrivals' = arrivals + 1
          /\ UNCHANGED <<vars, now, stamp, last_used, left, recent, due>>
      BY <1>1 DEF Arrive
    <2> HIDE DEF new
    <2>3. PTypeOK'
      BY <1>0, <2>1, <2>2 DEF PInv, PTypeOK, Stages
    <2>4. Recordable'
      BY <2>1, <2>2 DEF PInv, PTypeOK, Recordable, IsUse
    <2> QED BY <1>0, <2>2, <2>3, <2>4, ShownStays DEF PInv
  <1>2. ASSUME NEW r \in Requests, Accept(r) PROVE PInv'
    <2>1. PICK l \in {"record", "report"} :
            /\ stage' = [stage EXCEPT ![r] = l]
            /\ l = "record" => IsUse(r) /\ stamp' = [stamp EXCEPT ![r] = now]
            /\ l = "report" => stamp' = [stamp EXCEPT ![r] = stamp[r]]
      BY <1>2 DEF Accept, To
    <2>2. /\ stage[r] = "validate" /\ req' = req
          /\ UNCHANGED <<vars, now, arrivals, last_used, left, recent, due>>
      BY <1>2 DEF Accept, To
    <2>0. stamp' \in [Requests -> Nat \cup {None}]
      <3>1. stamp \in [Requests -> Nat \cup {None}] /\ now \in Nat
        BY DEF PInv, PTypeOK
      <3>2. stamp' = [stamp EXCEPT ![r] = IF IsUse(r) THEN now ELSE @]
        BY <1>2 DEF Accept
      <3> QED BY <3>1, <3>2
    <2>3. PTypeOK'
      BY <1>0, <2>0, <2>1, <2>2 DEF PInv, PTypeOK, Stages
    <2>4. Recordable'
      BY <2>1, <2>2 DEF PInv, PTypeOK, Recordable, IsUse
    <2> QED BY <1>0, <2>2, <2>3, <2>4, ShownStays DEF PInv
  <1>3. ASSUME NEW r \in Requests, Record(r) PROVE PInv'
    <2>1. PTypeOK'
      BY <1>0, <1>3, RecordShows DEF PInv, PTypeOK, Record, To, Stages
    <2>2. Recordable'
      BY <1>3 DEF PInv, PTypeOK, Recordable, Record, To, IsUse
    <2>3. LatestUseShown'
      BY <1>3, RecordShows
    <2> QED BY <1>0, <2>1, <2>2, <2>3 DEF PInv
  <1>4. ASSUME NEW r \in Requests, InitializeLimit(r) PROVE PInv'
    <2>1. SubOf[req[r].q.bearer] \in Subs
      BY <1>4 DEF PInv, PTypeOK, Recordable, InitializeLimit, Request
    <2>2. left' \in [Subs -> 0..Burst]
      BY <1>4, <2>1 DEF PInv, PTypeOK, InitializeLimit, Limited
    <2>3. PICK l \in {"idle", "session", "tool"} : To(r, l)
      BY <1>4 DEF InitializeLimit
    <2>4. UNCHANGED <<now, arrivals, stamp, last_used, recent, due>> /\ stage[r] = "limit"
      BY <1>4 DEF InitializeLimit
    <2>5. PTypeOK' /\ Recordable'
      BY <1>0, <2>2, <2>3, <2>4 DEF PInv, PTypeOK, Recordable, To, Stages, IsUse
    <2> QED BY <1>0, <2>4, <2>5, ShownStays DEF PInv
  <1>5. ASSUME NEW r \in Requests, SessionStep(r) PROVE PInv'
    <2>1. SubOf[req[r].q.bearer] \in Subs
      BY <1>5 DEF PInv, PTypeOK, Recordable, SessionStep, Request
    <2>2. due' \in [Subs -> Int]
      BY <1>5, <2>1 DEF PInv, PTypeOK, SessionStep
    <2>3. PICK l \in {"idle", "session"} : To(r, l)
      BY <1>5 DEF SessionStep
    <2>4. UNCHANGED <<now, arrivals, stamp, last_used, left, recent>> /\ stage[r] = "session"
      BY <1>5 DEF SessionStep
    <2>5. PTypeOK' /\ Recordable'
      BY <1>0, <2>2, <2>3, <2>4 DEF PInv, PTypeOK, Recordable, To, Stages, IsUse
    <2> QED BY <1>0, <2>4, <2>5, ShownStays DEF PInv
  <1>6. ASSUME NEW r \in Requests,
               Refuse(r) \/ ToolReturns(r) \/ Report(r) \/ HangUp(r)
        PROVE  PInv'
    <2>1. To(r, "idle") /\ UNCHANGED <<now, arrivals, stamp, last_used, left, recent, due>>
      BY <1>6 DEF Refuse, ToolReturns, Report, HangUp
    <2>2. PTypeOK' /\ Recordable'
      BY <1>0, <2>1 DEF PInv, PTypeOK, Recordable, To, Stages, IsUse
    <2> QED BY <1>0, <2>1, <2>2, ShownStays DEF PInv
  <1>7. CASE Tick
    <2>1. \A s \in Subs : left[s] + Refilled(s) \in 0..Burst /\ due[s] + Refilled(s) \in Int
      BY DEF PInv, PTypeOK, Refilled
    <2>2. PTypeOK' /\ Recordable'
      BY <1>0, <1>7, <2>1 DEF PInv, PTypeOK, Recordable, Tick, IsUse
    <2> QED BY <1>0, <1>7, <2>2, ShownStays DEF PInv, Tick
  <1>8. CASE UNCHANGED pipeline
    <2>1. PTypeOK' /\ Recordable'
      BY <1>0, <1>8 DEF pipeline, PInv, PTypeOK, Recordable, IsUse
    <2> QED BY <1>0, <1>8, <2>1, ShownStays DEF PInv, pipeline
  <1> QED BY <1>1, <1>2, <1>3, <1>4, <1>5, <1>6, <1>7, <1>8 DEF PNext, pvars

\* PInv is an invariant.
LEMMA PInvariance == PSpec => []PInv
  BY PInvInit, PInvStep, PTL DEF PSpec

\* The variables keep their types.
THEOREM PTypeCorrect == PSpec => []PTypeOK
  <1>1. PInv => PTypeOK
    BY DEF PInv
  <1> QED BY <1>1, PInvariance, PTL

\* /token/introspect shows the latest use of the bearer, however many bearers
\* there are, from its caller's address, or from none if what the caller
\* claims is not text; whatever it claims, never from another.
THEOREM LatestUseIsShown == PSpec => []LatestUseShown
  <1>1. PInv => LatestUseShown
    BY DEF PInv
  <1> QED BY <1>1, PInvariance, PTL
-----------------------------------------------------------------------------
\* The requests of a subject that paid the limit and have no session yet.
Waiting(s) ==
  {r \in Requests : /\ stage[r] = "session" /\ pc[r] \in {"gate", "count", "insert"}
                    /\ SubOf[req[r].q.bearer] = s}

\* What a subject may still open covers its bucket and those that wait.
Quota == \A s \in Subs : due[s] >= left[s] + Cardinality(Waiting(s))

\* A request that gives up its place takes nothing from the quota, nor does
\* one that pays and goes no further.
LEMMA FewerWait ==
  ASSUME PInv, Quota, due' = due,
         \A s \in Subs : left'[s] \in Nat /\ left'[s] <= left[s],
         \A s \in Subs : Waiting(s)' \subseteq Waiting(s)
  PROVE  Quota'
  <1>1. ASSUME NEW s \in Subs PROVE due'[s] >= left'[s] + Cardinality(Waiting(s)')
    <2>1. IsFiniteSet(Waiting(s))
      BY PipelineAssumption, FS_Subset DEF Waiting
    <2>2. /\ Cardinality(Waiting(s)') <= Cardinality(Waiting(s))
          /\ Cardinality(Waiting(s)') \in Nat /\ Cardinality(Waiting(s)) \in Nat
      BY <1>1, <2>1, FS_Subset, FS_CardinalityType
    <2>3. left[s] \in Nat /\ due[s] \in Int
      BY PipelineAssumption DEF PInv, PTypeOK
    <2>5. left'[s] \in Nat /\ left'[s] <= left[s]
      BY <1>1
    <2>4. due[s] >= left[s] + Cardinality(Waiting(s))
      BY DEF Quota
    <2> QED BY <2>2, <2>3, <2>4, <2>5
  <1> QED BY <1>1 DEF Quota

\* Every step keeps Quota: the token is paid on the way in, and the session
\* opened for it is counted once.
LEMMA QuotaStep == PInv /\ Quota /\ [PNext]_pvars => Quota'
  <1> SUFFICES ASSUME PInv, Quota, [PNext]_pvars PROVE Quota'
    OBVIOUS
  <1> USE PipelineAssumption
  <1>0. /\ stage \in [Requests -> Stages] /\ pc \in [Requests -> PC]
        /\ left \in [Subs -> 0..Burst] /\ due \in [Subs -> Int]
        /\ req \in [Requests -> [q : Request, since : Nat, after : SUBSET Use] \cup {None}]
        /\ \A s \in Subs : /\ IsFiniteSet(Waiting(s)) /\ Cardinality(Waiting(s)) \in Nat
                           /\ due[s] >= left[s] + Cardinality(Waiting(s))
    <2>1. \A s \in Subs : IsFiniteSet(Waiting(s))
      BY FS_Subset DEF Waiting
    <2> QED BY <2>1, FS_CardinalityType DEF PInv, PTypeOK, TypeOK, Quota
  <1>7. left' = left => \A s \in Subs : left'[s] \in Nat /\ left'[s] <= left[s]
    BY <1>0
  <1>1. ASSUME NEW r \in Requests,
               \/ \E q \in Sent : Arrive(r, q)
               \/ Accept(r) \/ Refuse(r) \/ Record(r) \/ ToolReturns(r) \/ Report(r)
               \/ HangUp(r)
        PROVE  Quota'
    <2>1. UNCHANGED <<left, due>>
      BY <1>1 DEF Arrive, Accept, Refuse, Record, ToolReturns, Report, HangUp
    <2>2. \A x \in Requests : x # r => stage'[x] = stage[x] /\ req'[x] = req[x]
      BY <1>0, <1>1 DEF Arrive, Accept, Refuse, Record, ToolReturns, Report, HangUp, To
    <2>3. stage'[r] # "session"
      BY <1>0, <1>1 DEF Arrive, Accept, Refuse, Record, ToolReturns, Report, HangUp, To
    <2>4. \A x \in Requests : x # r => pc'[x] = pc[x]
      BY <1>0, <1>1 DEF Arrive, Accept, Refuse, Record, ToolReturns, Report, HangUp, vars,
                        Disconnect, Goto
    <2>5. \A s \in Subs : Waiting(s)' \subseteq Waiting(s)
      BY <2>2, <2>3, <2>4 DEF Waiting
    <2> QED BY <1>7, <2>1, <2>5, FewerWait
  <1>2. ASSUME NEW r \in Requests, InitializeLimit(r) PROVE Quota'
    <2>1. PICK u \in Subs : u = SubOf[req[r].q.bearer] /\ due' = due /\ stage[r] = "limit"
      BY <1>2 DEF PInv, PTypeOK, Recordable, InitializeLimit, Request
    <2>2. CASE Limited(r) \/ req[r].q.kind # "fresh"
      <3>1. UNCHANGED <<left, pc>>
        BY <1>2, <2>2 DEF InitializeLimit, IsFresh, Limited, vars
      <3>2. PICK l \in {"idle", "tool"} : To(r, l)
        BY <1>2, <2>2 DEF InitializeLimit, IsFresh, Limited
      <3>3. \A s \in Subs : Waiting(s)' \subseteq Waiting(s)
        BY <1>0, <3>1, <3>2 DEF To, Waiting
      <3> QED BY <1>7, <2>1, <3>1, <3>3, FewerWait
    <2>3. CASE ~Limited(r) /\ req[r].q.kind = "fresh" /\ To(r, "idle") /\ UNCHANGED vars
      <3>1. left[u] # 0 /\ left' = [left EXCEPT ![u] = @ - 1]
        BY <1>2, <2>1, <2>3 DEF InitializeLimit, IsFresh, Limited
      <3>2. \A s \in Subs : left'[s] \in Nat /\ left'[s] <= left[s]
        <4>1. left[u] - 1 \in Nat /\ left[u] - 1 <= left[u]
          BY <1>0, <2>1, <3>1
        <4>2. \A s \in Subs : left'[s] = IF s = u THEN left[u] - 1 ELSE left[s]
          BY <1>0, <3>1
        <4>3. \A s \in Subs : left[s] \in Nat /\ left[s] <= left[s]
          BY <1>0
        <4> QED BY <4>1, <4>2, <4>3
      <3>3. \A s \in Subs : Waiting(s)' \subseteq Waiting(s)
        BY <1>0, <2>3 DEF To, Waiting, vars
      <3> QED BY <2>1, <3>2, <3>3, FewerWait
    <2>4. CASE ~Limited(r) /\ req[r].q.kind = "fresh" /\ To(r, "session") /\ Initialize(r)
      <3>1. /\ To(r, "session") /\ Initialize(r) /\ left[u] # 0
            /\ left' = [left EXCEPT ![u] = @ - 1]
        BY <1>2, <2>1, <2>4 DEF InitializeLimit, IsFresh, Limited
      <3>2. /\ stage' = [stage EXCEPT ![r] = "session"] /\ req' = req
            /\ pc' = [pc EXCEPT ![r] = "gate"]
        BY <3>1 DEF To, Initialize, Goto
      <3>3. ASSUME NEW s \in Subs, s # u PROVE due'[s] >= left'[s] + Cardinality(Waiting(s)')
        <4>1. Waiting(s)' = Waiting(s)
          BY <1>0, <2>1, <3>2, <3>3 DEF Waiting
        <4>2. left'[s] = left[s]
          BY <1>0, <3>1, <3>3
        <4> QED BY <1>0, <2>1, <4>1, <4>2
      <3>4. due'[u] >= left'[u] + Cardinality(Waiting(u)')
        <4>1. Waiting(u)' = Waiting(u) \cup {r} /\ r \notin Waiting(u)
          BY <1>0, <2>1, <3>2 DEF Waiting
        <4>2. Cardinality(Waiting(u)') = Cardinality(Waiting(u)) + 1
          <5>1. IsFiniteSet(Waiting(u))
            BY <1>0
          <5>2. Cardinality(Waiting(u) \cup {r}) = Cardinality(Waiting(u)) + 1
            BY <4>1, <5>1, FS_AddElement
          <5> QED BY <4>1, <5>2
        <4>3. left'[u] = left[u] - 1 /\ left[u] \in Nat
          BY <1>0, <2>1, <3>1
        <4> QED BY <1>0, <2>1, <4>2, <4>3
      <3> QED BY <3>3, <3>4 DEF Quota
    <2> QED BY <1>2, <2>2, <2>3, <2>4 DEF InitializeLimit
  <1>3. ASSUME NEW r \in Requests, SessionStep(r) PROVE Quota'
    <2>1. PICK u \in Subs : u = SubOf[req[r].q.bearer] /\ left' = left /\ stage[r] = "session"
      BY <1>3 DEF PInv, PTypeOK, Recordable, SessionStep, Request
    <2>2. /\ \A x \in Requests : x # r => stage'[x] = stage[x] /\ req'[x] = req[x]
          /\ stage'[r] = "session" => req'[r] = req[r]
      BY <1>0, <1>3 DEF SessionStep, To
    <2>3. CASE (Lock(r) \/ Count(r) \/ Complete(r)) /\ due' = due
      <3>1. /\ \A x \in Requests : x # r => pc'[x] = pc[x]
            /\ pc'[r] \in {"gate", "count", "insert"} => pc[r] \in {"gate", "count", "insert"}
        BY <1>0, <2>3 DEF Lock, Count, Complete, Goto
      <3>2. \A s \in Subs : Waiting(s)' \subseteq Waiting(s)
        BY <2>1, <2>2, <3>1 DEF Waiting
      <3> QED BY <1>7, <2>1, <2>3, <3>2, FewerWait
    <2>4. CASE Create(r) /\ due' = [due EXCEPT ![u] = @ - 1]
      <3>1. pc[r] = "insert" /\ pc' = [pc EXCEPT ![r] = "init"]
        BY <2>4 DEF Create, Goto
      <3>2. r \in Waiting(u)
        BY <2>1, <3>1 DEF Waiting
      <3>3. \A s \in Subs : Waiting(s)' = Waiting(s) \ {r}
        BY <1>0, <2>2, <3>1 DEF Waiting
      <3>4. \A s \in Subs : s # u => r \notin Waiting(s)
        BY <2>1 DEF Waiting
      <3>5. ASSUME NEW s \in Subs, s # u PROVE due'[s] >= left'[s] + Cardinality(Waiting(s)')
        <4>1. Waiting(s)' = Waiting(s)
          BY <3>3, <3>4, <3>5
        <4> QED BY <1>0, <2>1, <2>4, <3>5, <4>1
      <3>6. due'[u] >= left'[u] + Cardinality(Waiting(u)')
        <4>1. Cardinality(Waiting(u)') = Cardinality(Waiting(u)) - 1
          <5>1. Waiting(u)' = Waiting(u) \ {r} /\ IsFiniteSet(Waiting(u))
            BY <1>0, <3>3
          <5>2. Cardinality(Waiting(u) \ {r}) = Cardinality(Waiting(u)) - 1
            BY <3>2, <5>1, FS_RemoveElement
          <5> QED BY <5>1, <5>2
        <4>2. due'[u] = due[u] - 1
          BY <1>0, <2>1, <2>4
        <4>3. left[u] \in Nat /\ due[u] \in Int
          BY <1>0, <2>1
        <4>4. due[u] >= left[u] + Cardinality(Waiting(u)) /\ Cardinality(Waiting(u)) \in Nat
              /\ left' = left
          BY <1>0, <2>1
        <4> QED BY <4>1, <4>2, <4>3, <4>4
      <3> QED BY <3>5, <3>6 DEF Quota
    <2> QED BY <1>3, <2>1, <2>3, <2>4 DEF SessionStep
  <1>4. ASSUME NEW s \in SessionIds, SessionEnds(s), UNCHANGED pipeline PROVE Quota'
    <2>1. UNCHANGED <<left, due, stage, req, pc>>
      BY <1>4 DEF SessionEnds, pipeline
    <2> QED BY <1>7, <2>1, FewerWait DEF Waiting
  <1>5. CASE Tick
    <2>1. \A s \in Subs : Waiting(s)' = Waiting(s)
      BY <1>5 DEF Tick, vars, Waiting
    <2>2. \A s \in Subs : /\ left'[s] = left[s] + Refilled(s)
                          /\ due'[s] = due[s] + Refilled(s) /\ Refilled(s) \in Nat
      BY <1>5 DEF Tick, Refilled
    <2>3. \A s \in Subs : left[s] \in Nat /\ due[s] \in Int
      BY <1>0
    <2> QED BY <1>0, <2>1, <2>2, <2>3 DEF Quota
  <1>6. CASE UNCHANGED pvars
    <2>1. UNCHANGED <<left, due, stage, req, pc>>
      BY <1>6 DEF pvars, vars, pipeline
    <2> QED BY <1>7, <2>1, FewerWait DEF Waiting
  <1> QED BY <1>1, <1>2, <1>3, <1>4, <1>5, <1>6 DEF PNext

\* No subject opens more sessions than a burst and what has been refilled.
THEOREM QuotaHolds == PSpec => []SessionsWithinQuota
  <1>1. PInit => Quota
    <2> SUFFICES ASSUME PInit PROVE Quota
      OBVIOUS
    <2>1. \A s \in Subs : Waiting(s) = {}
      BY DEF PInit, Waiting
    <2>2. Cardinality({}) = 0
      BY FS_EmptySet
    <2>3. \A s \in Subs : due[s] = Burst /\ left[s] = Burst /\ Burst \in Nat
      BY PipelineAssumption DEF PInit
    <2> QED BY <2>1, <2>2, <2>3 DEF Quota
  <1>2. PInv /\ Quota => SessionsWithinQuota
    <2> SUFFICES ASSUME PInv, Quota, NEW s \in Subs PROVE due[s] >= 0
      BY DEF SessionsWithinQuota
    <2>1. IsFiniteSet(Waiting(s))
      BY FS_Subset, PipelineAssumption DEF Waiting
    <2>2. Cardinality(Waiting(s)) \in Nat /\ left[s] \in Nat /\ due[s] \in Int
      BY <2>1, FS_CardinalityType, PipelineAssumption DEF PInv, PTypeOK
    <2> QED BY <2>2 DEF Quota
  <1> QED BY <1>1, <1>2, QuotaStep, PInvariance, PTL DEF PSpec
=============================================================================
