----------------------------- MODULE Multistatus ----------------------------
(***************************************************************************)
(* parse_multistatus of carddav_client.rs: the XML of a 207 answer, taken  *)
(* event by event with a stack of open elements, the response being read,  *)
(* and the field, if any, that text goes to.  An event is [kind, name] for *)
(* tags and [kind, text] for text, character data and entity references,   *)
(* whose conversion may fail.  A response is the set of its captured       *)
(* fields with their text, and whether it is an address book.              *)
(***************************************************************************)
EXTENDS Iteration, SequencesExt, FiniteSetsExt

\* Leaf elements whose text a field takes, whatever they lie in.
FieldOf ==
  [name \in {"displayname", "getctag", "getetag", "address-data"} |->
     CASE name = "displayname"  -> "display_name"
       [] name = "getctag"      -> "ctag"
       [] name = "getetag"      -> "etag"
       [] name = "address-data" -> "address_data"]

\* href is a field by the element it lies in.
HrefOf ==
  [name \in {"current-user-principal", "addressbook-home-set", "response"} |->
     CASE name = "current-user-principal" -> "current_user_principal"
       [] name = "addressbook-home-set"   -> "addressbook_home"
       [] name = "response"               -> "href"]

NoCapture == "none"
NewResponse == [open |-> TRUE, fields |-> <<>>, addressbook |-> FALSE]
NoResponse == [NewResponse EXCEPT !.open = FALSE]

Begin == [stack |-> <<>>, current |-> NoResponse, capture |-> NoCapture,
          output |-> <<>>, failed |-> FALSE]
-----------------------------------------------------------------------------
\* Any href in a response is taken for its own.
BugCaptureOf(name, stack, capture) ==
  IF name = "href" THEN "href"
  ELSE IF name \in DOMAIN FieldOf THEN FieldOf[name]
  ELSE capture

\* The field that text goes to within an element just opened.
CaptureOf(name, stack, capture) ==
  IF name = "href" /\ stack # <<>> /\ Last(stack) \in DOMAIN HrefOf
  THEN HrefOf[Last(stack)]
  ELSE IF name \in DOMAIN FieldOf THEN FieldOf[name]
  ELSE capture

\* append_capture
AppendCapture(r, field, text) ==
  LET before == IF field \in DOMAIN r.fields THEN r.fields[field] ELSE <<>>
  IN  [r EXCEPT !.fields = [f \in DOMAIN @ \cup {field} |->
                              IF f = field THEN Append(before, text) ELSE @[f]]]

\* trim_parsed_response: address data is left as it came.
TrimResponse(r) ==
  LET trim(text) ==
        LET solid == {i \in DOMAIN text : text[i] # " "}
        IN  IF solid = {} THEN <<>> ELSE SubSeq(text, Min(solid), Max(solid))
  IN  [r EXCEPT !.fields =
         [f \in DOMAIN @ |-> IF f = "address_data" THEN @[f] ELSE trim(@[f])]]
-----------------------------------------------------------------------------
Mark(r, name) ==
  IF r.open /\ name = "addressbook" THEN [r EXCEPT !.addressbook = TRUE]
  ELSE r

Start(s, name) ==
  LET r == Mark(IF name = "response" THEN NewResponse ELSE s.current, name)
  IN  [s EXCEPT !.current = r,
                !.capture = IF ~r.open THEN @
                            ELSE CaptureOf(name, s.stack, @),
                !.stack = Append(@, name)]

\* An empty-element tag opens nothing.
Empty(s, name) == [s EXCEPT !.current = Mark(@, name)]

\* Text, character data and entity references: text that is not captured is
\* not converted either.
Text(s, text) ==
  IF ~s.current.open \/ s.capture = NoCapture THEN s
  ELSE IF text = "undecodable" THEN [s EXCEPT !.failed = TRUE]
  ELSE [s EXCEPT !.current = AppendCapture(@, s.capture, text)]

\* Elements whose end ends the capture.
Ends == {"href"} \cup DOMAIN FieldOf

End(s, name) ==
  LET done == name = "response" /\ s.current.open
  IN  [s EXCEPT !.capture = IF name \in Ends THEN NoCapture ELSE @,
                !.output = IF done THEN Append(@, TrimResponse(s.current)) ELSE @,
                !.current = IF name = "response" THEN NoResponse ELSE @,
                !.stack = IF @ = <<>> THEN @ ELSE Front(@)]

\* One event of the loop.
Handle(s, e) ==
  IF s.failed THEN s
  ELSE CASE e.kind = "start"   -> Start(s, e.name)
         [] e.kind = "empty"   -> Empty(s, e.name)
         [] e.kind = "text"    -> Text(s, e.name)
         [] e.kind = "end"     -> End(s, e.name)
         [] e.kind = "garbled" -> [s EXCEPT !.failed = TRUE]

\* None when the XML cannot be read.
ParseMultistatus(events) ==
  LET s == Run(Handle, Begin, events)
  IN  IF s.failed THEN {} ELSE {s.output}
=============================================================================
