---------------------------- MODULE ContactStore ----------------------------
(***************************************************************************)
(* What the write tools promise, whatever exchanges they are made of: a    *)
(* call takes effect at most once and at one moment, on the version of the *)
(* contact that is there at that moment, which is the one the caller named *)
(* if it named one; a refusal has a reason in the store; and the answer is *)
(* true of the call, unless it is "failed", which says nothing.            *)
(* ContactWrites implements this specification.                            *)
(***************************************************************************)
EXTENDS Integers

CONSTANTS Calls, Uids, Hrefs, NoUid, None, MaxWrites

VARIABLES
  book,     \* whether the address book is there
  store,    \* href -> the vCard there, or None
  writes,   \* versions given out so far
  arg,      \* a call's arguments
  saw,      \* what an update met when it looked, before it took effect
  phase     \* where a call is

vars == <<book, store, writes, arg, saw, phase>>

\* "effect", "missing", "changed": settled, and not yet told to the caller.
Answers(p) ==
  CASE p = "effect"  -> {"ok", "failed"}
    [] p = "missing" -> {"not_found", "failed"}
    [] p = "changed" -> {"conflict", "failed"}
    [] p = "open"    -> {"auth_expired", "failed"}

Args == [tool : {"create", "update", "delete"}, href : Hrefs,
         uid : Uids \cup {None}, etag : 1..MaxWrites \cup {None}]

Init ==
  /\ book = TRUE
  /\ store = [h \in Hrefs |-> None]
  /\ writes = 0
  /\ arg = [c \in Calls |-> None]
  /\ saw = [c \in Calls |-> None]
  /\ phase = [c \in Calls |-> "idle"]

Becomes(c, p) == phase' = [phase EXCEPT ![c] = p]

\* A new version of h, with UID u.
Put(h, u) ==
  /\ writes < MaxWrites
  /\ writes' = writes + 1
  /\ \E o \in BOOLEAN :
       store' = [store EXCEPT ![h] = [uid |-> u, etag |-> writes + 1, other |-> o]]

\* Another contact than h's has the UID.
Taken(u, h) == \E g \in Hrefs \ {h} : store[g] # None /\ store[g].uid = u

Remove(h) == store' = [store EXCEPT ![h] = None] /\ UNCHANGED writes
-----------------------------------------------------------------------------
Begin(c, a) ==
  /\ phase[c] = "idle"
  /\ arg' = [arg EXCEPT ![c] = a]
  /\ Becomes(c, "open")
  /\ UNCHANGED <<book, store, writes, saw>>

\* An update looks what is there, and may end there; nothing binds it to
\* write on what it saw.
Look(c) ==
  /\ phase[c] = "open" /\ arg[c].tool = "update"
  /\ LET a == arg[c]
         there == store[a.href]
     IN  /\ saw' = [saw EXCEPT ![c] = there]
         /\ IF there = None THEN Becomes(c, "not_found")
            ELSE IF there.uid = NoUid \/ a.uid \notin {None, there.uid}
            THEN Becomes(c, "invalid")
            ELSE UNCHANGED phase
  /\ UNCHANGED <<book, store, writes, arg>>

\* The version the caller named, if any, is the one that is there.
AsNamed(a) == a.etag = None \/ store[a.href].etag = a.etag

\* A contact with that UID may be put at h.
Free(u, h) == book /\ ~Taken(u, h)

\* The call takes effect: create where nothing is, update what is there
\* under the UID it has, delete what is there.
TakeEffect(c) ==
  /\ phase[c] = "open"
  /\ LET a == arg[c]
         h == a.href
     IN  \/ /\ a.tool = "create" /\ store[h] = None /\ Free(a.uid, h)
            /\ Put(h, a.uid)
         \/ /\ a.tool = "update" /\ store[h] # None /\ AsNamed(a)
            /\ a.uid \in {None, store[h].uid}
            /\ Put(h, store[h].uid)
         \/ /\ a.tool = "delete" /\ store[h] # None /\ AsNamed(a)
            /\ Remove(h)
  /\ Becomes(c, "effect")
  /\ UNCHANGED <<book, arg, saw>>

\* It is refused because the contact is not there,
Missing(c) ==
  /\ phase[c] = "open"
  /\ arg[c].tool # "create" /\ store[arg[c].href] = None
  /\ Becomes(c, "missing")
  /\ UNCHANGED <<book, store, writes, arg, saw>>

\* or because it is there already or may not be put there, or is not as
\* named, or has been changed since it looked.
Changed(c) ==
  /\ phase[c] = "open"
  /\ LET a == arg[c]
         there == store[a.href]
     IN  CASE a.tool = "create" -> there # None \/ ~Free(a.uid, a.href)
           [] a.tool = "delete" -> there = None \/ ~AsNamed(a)
           [] a.tool = "update" -> \/ there = None \/ ~book
                                   \/ IF a.etag = None THEN there # saw[c]
                                      ELSE ~AsNamed(a)
  /\ Becomes(c, "changed")
  /\ UNCHANGED <<book, store, writes, arg, saw>>

Tell(c) ==
  /\ phase[c] \in {"open", "effect", "missing", "changed"}
  /\ \E answer \in Answers(phase[c]) : Becomes(c, answer)
  /\ UNCHANGED <<book, store, writes, arg, saw>>

\* Others write the store too; they leave a contact the UID it has, and give
\* no two the same.
OthersWrite(h) ==
  /\ \/ store[h] # None /\ (Put(h, store[h].uid) \/ Remove(h))
     \/ store[h] = None /\ \E u \in Uids : Free(u, h) /\ Put(h, u)
     \/ store[h] = None /\ book /\ Put(h, NoUid)
  /\ UNCHANGED <<book, arg, saw, phase>>

\* They may delete the address book, with all that is in it, or make it anew.
OthersMoveBook ==
  /\ book' = ~book
  /\ store' = [h \in Hrefs |-> None]
  /\ UNCHANGED <<writes, arg, saw, phase>>

Next ==
  \/ \E h \in Hrefs : OthersWrite(h)
  \/ OthersMoveBook
  \/ \E c \in Calls :
       \/ Look(c) \/ TakeEffect(c) \/ Missing(c) \/ Changed(c) \/ Tell(c)
       \/ arg'[c] \in Args /\ Begin(c, arg'[c])

Spec == Init /\ [][Next]_vars
=============================================================================
