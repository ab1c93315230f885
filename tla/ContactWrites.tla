--------------------------- MODULE ContactWrites ---------------------------
(***************************************************************************)
(* The write tools of mcp.rs (create_contact, update_contact,              *)
(* delete_contact) over carddav_client.rs, against a CardDAV server shared *)
(* with other clients.  A tool call is a sequence of HTTP exchanges; the   *)
(* server handles each request at one moment, its answer arrives later or  *)
(* is lost, and anything may happen to the store in between.               *)
(*                                                                         *)
(* A vCard is its UID, the version of its common fields (its ETag), and    *)
(* whether it has other properties (BDAY, PHOTO, ADR, ...).  Bug...        *)
(* definitions are mistakes the properties would notice; no specification  *)
(* uses them.                                                              *)
(***************************************************************************)
EXTENDS Integers, FiniteSets

CONSTANTS
  Calls,       \* tool calls, each made once
  Uids,        \* contact UIDs
  Hrefs,       \* places in the address book; a created contact lives at
               \* <book>/<uid>.vcf, so its UID also names its href
  NoUid,       \* what a vCard without a UID has
  None,        \* an absent optional value, or an absent resource
  MaxWrites    \* model bound: writes to the store

ASSUME ContactAssumption ==
  /\ Hrefs \subseteq Uids
  /\ None \notin Uids /\ NoUid \notin Uids /\ NoUid # None
  /\ MaxWrites \in Nat

VARIABLES
  book,      \* whether the address book is there; every href is in it
  store,     \* the server: href -> vCard with its ETag, or None
  writes,    \* ETags given out so far: the n-th write has ETag n
  pc,        \* where each call is
  arg,       \* its arguments: tool, href, uid, etag
  base,      \* update_contact: the resource its GET returned
  applied    \* history: the ETag of the version this call replaced, 0 where
             \* it created the resource; None before its write took effect

vars == <<book, store, writes, pc, arg, base, applied>>

Etag == 1..MaxWrites
Card == [uid : Uids \cup {NoUid}, etag : Etag, other : BOOLEAN]
Args == [tool : {"create", "update", "delete"}, href : Hrefs,
         uid : Uids \cup {None}, etag : Etag \cup {None}]

\* None is none of the things it stands for the absence of.
ASSUME NoneAssumption == None \notin Nat /\ None \notin Card /\ None \notin Args

\* The status of a write, on its way back.
Status == {"2xx", "404", "409", "412"}
\* Results: "ok" and the CardDavError the call ends in, as map_carddav_err
\* reports them; "invalid" is a refusal before any write.
Results == {"ok", "not_found", "conflict", "auth_expired", "invalid", "failed"}
PC == {"idle", "get", "put"} \cup Status \cup Results

Exists(h) == store[h] # None

\* Another contact than h's has the UID.
Taken(u, h) == \E g \in Hrefs \ {h} : Exists(g) /\ store[g].uid = u

Init ==
  /\ book = TRUE
  /\ store = [h \in Hrefs |-> None]
  /\ writes = 0
  /\ pc = [c \in Calls |-> "idle"]
  /\ arg = [c \in Calls |-> None]
  /\ base = [c \in Calls |-> None]
  /\ applied = [c \in Calls |-> None]

Goto(c, l) == pc' = [pc EXCEPT ![c] = l]
-----------------------------------------------------------------------------
(***************************************************************************)
(* A tool is called with valid fields (validate_contact_input refuses the  *)
(* others).  A caller quotes an ETag it was shown, so one already given    *)
(* out.  create_contact takes the UID of its argument, or generates one.   *)
(***************************************************************************)
Call(c, a) ==
  /\ pc[c] = "idle"
  /\ a.etag # None => a.etag <= writes
  /\ a.tool = "create" => a.etag = None /\ a.uid = a.href
  /\ a.tool = "delete" => a.uid = None
  /\ arg' = [arg EXCEPT ![c] = a]
  /\ Goto(c, IF a.tool = "update" THEN "get" ELSE "put")
  /\ UNCHANGED <<book, store, writes, base, applied>>

\* update_contact reads the resource, keeps its UID, and refuses to change
\* it or to go on without; no write has been sent yet.  The answer carries
\* an ETag, as RFC 6352 obliges a server.
GetContact(c) ==
  /\ pc[c] = "get"
  /\ LET a == arg[c]
         existing == store[a.href]
     IN  /\ base' = [base EXCEPT ![c] = existing]
         /\ Goto(c, IF existing = None THEN "not_found"
                    ELSE IF \/ existing.uid = NoUid
                            \/ a.uid \notin {None, existing.uid} THEN "invalid"
                    ELSE "put")
  /\ UNCHANGED <<book, store, writes, arg, applied>>

\* The caller's ETag is used or none at all: the version read is forgotten.
BugIfMatch(c) == arg[c].etag

\* If-Match of update_contact and delete_contact: the caller's ETag, else
\* that of the version read; None stands for `*'.
IfMatch(c) ==
  IF arg[c].etag # None \/ arg[c].tool = "delete" THEN arg[c].etag
  ELSE base[c].etag

\* The server's test of the request's precondition (RFC 9110): creates carry
\* If-None-Match: *, the others If-Match.
Precondition(c) ==
  LET h == arg[c].href
  IN  IF arg[c].tool = "create" THEN ~Exists(h)
      ELSE Exists(h) /\ IfMatch(c) \in {None, store[h].etag}

\* The UID is taken from the arguments, where update_contact need not have it.
BugWritten(c) == [uid |-> arg[c].uid, etag |-> writes + 1, other |-> FALSE]

\* The resource a PUT leaves: build_vcard writes the UID and the common
\* fields, and nothing else.
Written(c) ==
  [uid   |-> IF arg[c].tool = "create" THEN arg[c].uid ELSE base[c].uid,
   etag  |-> writes + 1,
   other |-> FALSE]

\* What answers a PUT with 409 though its precondition may hold: there is no
\* address book (RFC 4918), or a contact to be created has the UID of
\* another one there (RFC 6352).
Blocked(c) ==
  \/ arg[c].tool # "delete" /\ ~book
  \/ arg[c].tool = "create" /\ Taken(arg[c].uid, arg[c].href)

\* The PUT or DELETE is applied,
Applies(c) ==
  /\ Precondition(c) /\ ~Blocked(c)
  /\ LET h == arg[c].href
     IN  /\ IF arg[c].tool = "delete"
            THEN store' = [store EXCEPT ![h] = None] /\ UNCHANGED writes
            ELSE /\ writes < MaxWrites
                 /\ store' = [store EXCEPT ![h] = Written(c)]
                 /\ writes' = writes + 1
         /\ applied' = [applied EXCEPT ![c] =
                          IF Exists(h) THEN store[h].etag ELSE 0]
  /\ Goto(c, "2xx")

\* or refused; a server may test in any order.
Refusals(c) ==
  {s \in {"404", "409", "412"} :
     CASE s = "404" -> arg[c].tool # "create" /\ ~Exists(arg[c].href)
       [] s = "409" -> Blocked(c)
       [] s = "412" -> ~Precondition(c)}

\* The server handles a PUT or a DELETE.
ServerWrites(c) ==
  /\ pc[c] = "put"
  /\ \/ Applies(c)
     \/ /\ \E s \in Refusals(c) : Goto(c, s)
        /\ UNCHANGED <<store, writes, applied>>
  /\ UNCHANGED <<book, arg, base>>

\* The bearer is refused (401 or 403) before the request is looked at; the
\* tool answers AUTH_EXPIRED.
ServerRefuses(c) ==
  /\ pc[c] \in {"get", "put"}
  /\ Goto(c, "auth_expired")
  /\ UNCHANGED <<book, store, writes, arg, base, applied>>

\* A conflict is taken for "the resource is already as wanted".
BugResultOf(s) ==
  CASE s \in {"2xx", "409", "412"} -> "ok" [] s = "404" -> "not_found"

ResultOf(s) ==
  CASE s = "2xx" -> "ok"
    [] s = "404" -> "not_found"
    [] s \in {"409", "412"} -> "conflict"

ReplyArrives(c) ==
  /\ pc[c] \in Status
  /\ Goto(c, ResultOf(pc[c]))
  /\ UNCHANGED <<book, store, writes, arg, base, applied>>

\* The connection fails or times out, before the request was handled or
\* after, the body of the reply cannot be read or is too large, or the
\* server reports an error of its own: an error from which the caller cannot
\* tell whether the write took effect.
ReplyLost(c) ==
  /\ pc[c] \in {"get", "put"} \cup Status
  /\ Goto(c, "failed")
  /\ UNCHANGED <<book, store, writes, arg, base, applied>>
-----------------------------------------------------------------------------
\* Another CardDAV client (external) edits a contact; servers hold it to the
\* UID it has.
ForeignEdit(h) ==
  /\ Exists(h) /\ writes < MaxWrites
  /\ store' = [store EXCEPT ![h].etag = writes + 1]
  /\ writes' = writes + 1
  /\ UNCHANGED <<book, pc, arg, base, applied>>

\* It may create a contact at any href, under any UID no other contact has
\* and with properties this server has no field for,
ForeignCreate(h, u) ==
  /\ book /\ ~Exists(h) /\ (u = NoUid \/ ~Taken(u, h))
  /\ writes < MaxWrites
  /\ store' = [store EXCEPT ![h] =
                 [uid |-> u, etag |-> writes + 1, other |-> TRUE]]
  /\ writes' = writes + 1
  /\ UNCHANGED <<book, pc, arg, base, applied>>

\* delete one,
ForeignDelete(h) ==
  /\ Exists(h)
  /\ store' = [store EXCEPT ![h] = None]
  /\ UNCHANGED <<book, writes, pc, arg, base, applied>>

\* and delete the address book, with all that is in it, or make it again.
ForeignBook ==
  /\ book' = ~book
  /\ store' = [h \in Hrefs |-> None]
  /\ UNCHANGED <<writes, pc, arg, base, applied>>

Next ==
  \/ \E c \in Calls :
       \/ \E a \in Args : Call(c, a)
       \/ GetContact(c) \/ ServerWrites(c) \/ ServerRefuses(c)
       \/ ReplyArrives(c) \/ ReplyLost(c)
  \/ \E h \in Hrefs :
       \/ ForeignEdit(h) \/ ForeignDelete(h)
       \/ \E u \in Uids \cup {NoUid} : ForeignCreate(h, u)
  \/ ForeignBook

Spec == Init /\ [][Next]_vars
-----------------------------------------------------------------------------
\* The types of the variables.
TypeOK ==
  /\ book \in BOOLEAN
  /\ store \in [Hrefs -> Card \cup {None}]
  /\ base \in [Calls -> Card \cup {None}]
  /\ writes \in 0..MaxWrites
  /\ pc \in [Calls -> PC]
  /\ arg \in [Calls -> Args \cup {None}]
  /\ applied \in [Calls -> 0..MaxWrites \cup {None}]

(***************************************************************************)
(* update_contact's "ETag concurrency control": the version an update      *)
(* replaces is the one its GET returned, so no edit made meanwhile is      *)
(* lost; with the caller's ETag it is also the version the caller saw.     *)
(***************************************************************************)
NoLostUpdate ==
  \A c \in Calls :
    applied[c] # None /\ arg[c].tool = "update"
      => applied[c] = base[c].etag /\ arg[c].etag \in {None, applied[c]}

\* How a call looks from outside: what the server has settled is settled,
\* though the answer is still on its way.
Outside(l) ==
  CASE l \in {"get", "put"} -> "open"
    [] l = "2xx" -> "effect"
    [] l = "404" -> "missing"
    [] l \in {"409", "412"} -> "changed"
    [] OTHER -> l

phase == [c \in Calls |-> Outside(pc[c])]

Promise == INSTANCE ContactStore WITH saw <- base

(***************************************************************************)
(* The exchanges of a tool call, among those of other calls and other      *)
(* clients, amount to one atomic step of the contact store or none: the    *)
(* read of an update and its write are as good as one.  So a contact keeps *)
(* its UID though it is read by one request and written by another, with   *)
(* the contact deleted and created anew between the two; a create never    *)
(* overwrites, an update or a delete never brings back; "ok" means that    *)
(* this very call took effect, a definite error that it did not; and a     *)
(* conflict means that the contact was there, was not as named, changed    *)
(* during the call, or could not be put there: no address book, or another *)
(* contact with its UID.                                                   *)
(***************************************************************************)
AtomicWrites == Promise!Spec

(***************************************************************************)
(* update_contact's description: it replaces the contact's "common vCard   *)
(* fields".  The other properties of the contact survive a tool's update.  *)
(***************************************************************************)
OtherFieldsSurvive ==
  [][ \A h \in Hrefs :
        Exists(h) /\ Exists(h)' => store'[h].other = store[h].other ]_vars
=============================================================================
