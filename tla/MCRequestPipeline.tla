-------------------------- MODULE MCRequestPipeline --------------------------
(***************************************************************************)
(* Two requests at a time, with two bearers of one user, a tracker of one  *)
(* entry and one session slot; the client, who is here, claims to be there *)
(* or sends what is not text, and the second proxy is there.               *)
(***************************************************************************)
EXTENDS RequestPipeline, TLC

CONSTANTS r1, r2, s1, s2, b1, b2, alice, here, there, junk

MCClaims  == {<<there>>, <<junk>>}
MCSubOf   == [x \in Bearers |-> alice]
MCProxies == <<there>>

Sends(kinds, b, entry) ==
  [kind : kinds, bearer : {b}, from : {here}, claim : {<<entry>>}]

MCSent == Sends({"fresh", "introspect"}, b1, there)
            \cup Sends({"call"}, b1, junk) \cup Sends({"fresh", "call"}, b2, there)
=============================================================================
