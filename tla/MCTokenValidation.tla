------------------------- MODULE MCTokenValidation -------------------------
(***************************************************************************)
(* Instances of TokenValidation for TLC.  Two keys: `old' is withdrawn and *)
(* `new' published while requests are in flight.  Tokens: `a' and `b' are  *)
(* good ones of either key, `c' is forged, `x' is opaque.                  *)
(***************************************************************************)
EXTENDS TokenValidation, TLC

CONSTANTS r1, r2, r3, old, new, noKid, a, b, c, x

Symmetry == Permutations(Requests)

MCKid == [t \in Tokens |-> CASE t \in {a, c} -> old [] t = b -> new
                             [] t = x -> noKid]
MCSupported   == Tokens \ {x}
MCAuthentic   == Tokens \ {c, x}
MCExp         == [t \in Tokens |-> IF t = b THEN 2 ELSE 4]
MCRevokedAt   == [t \in Tokens |-> 0]
MCPublishedAt == (old :> 0) @@ (new :> 1)
MCWithdrawnAt == (old :> 2) @@ (new :> 9)
=============================================================================
