--------------------------- MODULE MCContactReads ---------------------------
(***************************************************************************)
(* Home h1 lists itself and the books b1 and b2, with contacts k1 and k2   *)
(* at first; k3 may appear in b1.  The href `evil', off the origin, is a   *)
(* principal, a home, a book of home h2 and a contact that may appear in   *)
(* b2.  Token t2 only fills the cache.                                     *)
(***************************************************************************)
EXTENDS ContactReads, TLC
CONSTANTS c1, c2, t1, t2, p1, h1, h2, evil, b1, b2, k1, k2, k3

A(p, h) == [principal |-> p, home |-> h]
MCAccountsOf == t1 :> {A(p1, h1), A(p1, h2), A(p1, evil), A(evil, h1)}
                @@ t2 :> {A(p1, h1)}

MCHomeOf == h1 :> h1 @@ b1 :> h1 @@ b2 :> h1 @@ evil :> h2
MCBookOf == k1 :> b1 @@ k2 :> b2 @@ k3 :> b1 @@ evil :> b2

MCQueries ==
  [tool : {"whoami"}, token : {t1, t2}, book : {None}]
  \cup [tool : {"list_address_books", "search_contacts", "upcoming_birthdays"},
        token : {t1}, book : {None}]
  \cup [tool : {"list_contacts"}, token : {t1}, book : {b2, evil}]

Symmetry == Permutations(Calls)
=============================================================================
