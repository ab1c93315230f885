------------------------------ MODULE VCardText -----------------------------
(***************************************************************************)
(* The vCard text of mcp.rs: validate_contact_input, build_vcard with its  *)
(* escaping and folding, and parse_vcard, which reads cards back.  Text is *)
(* a sequence of symbols; a property name is one symbol.  A contact maps   *)
(* each field to a sequence of symbols, emails and phones to a sequence of *)
(* those.  An absent optional field and an empty one are the same to       *)
(* build_vcard, and are both <<>>.                                         *)
(***************************************************************************)
EXTENDS Iteration, SequencesExt, FiniteSetsExt

CONSTANTS
  Symbols,           \* what texts are made of
  Width(_),          \* the UTF-8 length of a symbol
  FoldWidth,         \* bytes in a physical line (75)
  MaxFieldBytes,     \* MAX_CONTACT_FIELD_BYTES (4096)
  MaxNoteBytes,      \* MAX_NOTE_BYTES (64 KiB)
  MaxVcardBytes,     \* MAX_VCARD_BYTES (256 KiB)
  MaxMultiValues     \* MAX_MULTI_VALUES (64)

\* A continuation line has room for as much as the first.
BugRoom == FoldWidth

\* After the space a continuation line starts with.
Room == FoldWidth - 1

Strings == Seq(Symbols)

\* Any symbol fits in a continuation line.
ASSUME WidthAssumption ==
  /\ FoldWidth \in Nat
  /\ \A c \in Symbols : Width(c) \in 0..(FoldWidth - 1)

ASSUME SymbolsAssumption ==
  /\ Width(" ") = 1
  /\ {"BEGIN", "VERSION", "UID", "FN", "N", "EMAIL", "TEL", "ORG", "TITLE", "NOTE", "END",
      "VCARD", "4.0", ":", ";", ",", "\\", "n", "CR", "LF", " "} \subseteq Symbols

Bytes(text) == Run(LAMBDA n, c : n + Width(c), 0, text)

\* str::replace of one symbol
Replace(text, old, new) ==
  Run(LAMBDA out, c : out \o (IF c = old THEN new ELSE <<c>>), <<>>, text)

\* str::split at each occurrence of one symbol; the empty text has one part
SplitAt(text, at) ==
  Run(LAMBDA parts, c : IF c = at THEN Append(parts, <<>>)
                        ELSE [parts EXCEPT ![Len(parts)] = Append(@, c)],
      << <<>> >>, text)

\* trim(), of the symbols these texts have
Blank == {" ", "CR", "LF"}
Trim(text) ==
  LET solid == {i \in DOMAIN text : text[i] \notin Blank}
  IN  IF solid = {} THEN <<>> ELSE SubSeq(text, Min(solid), Max(solid))
-----------------------------------------------------------------------------
\* What the escapes add is escaped again.
BugEscape(text) ==
  LET breaks == Replace(Replace(text, "CR", <<>>), "LF", <<"\\", "n">>)
      commas == Replace(Replace(breaks, ";", <<"\\", ";">>), ",", <<"\\", ",">>)
  IN  Replace(commas, "\\", <<"\\", "\\">>)

\* escape_vcard_text
Escape(text) ==
  LET slashes == Replace(text, "\\", <<"\\", "\\">>)
      breaks == Replace(Replace(slashes, "CR", <<>>), "LF", <<"\\", "n">>)
  IN  Replace(Replace(breaks, ";", <<"\\", ";">>), ",", <<"\\", ",">>)

\* One character of unescape_vcard_text
Unescaped(acc, c) ==
  IF acc.slash THEN [slash |-> FALSE,
                     out |-> Append(acc.out, IF c \in {"n", "N"} THEN "LF" ELSE c)]
  ELSE IF c = "\\" THEN [acc EXCEPT !.slash = TRUE]
  ELSE [acc EXCEPT !.out = Append(@, c)]

Unescape(text) ==
  LET end == Run(Unescaped, [slash |-> FALSE, out |-> <<>>], text)
  IN  IF end.slash THEN Append(end.out, "\\") ELSE end.out

\* fold_vcard_line: never within a symbol.
Folded(acc, c) ==
  IF Width(c) <= acc.room
  THEN [out |-> Append(acc.out, c), room |-> acc.room - Width(c)]
  ELSE [out |-> acc.out \o <<"CR", "LF", " ", c>>, room |-> Room - Width(c)]

Fold(line) == Run(Folded, [out |-> <<>>, room |-> FoldWidth], line).out

\* replace("\r\n", "\n")
Newlines(text) ==
  Run(LAMBDA out, c : IF c = "LF" /\ out # <<>> /\ Last(out) = "CR"
                      THEN Append(Front(out), "LF") ELSE Append(out, c),
      <<>>, text)

\* One line of unfold_vcard_lines
Unfolded(lines, raw) ==
  LET stripped == SubSeq(raw, 1, Max({0} \cup {i \in DOMAIN raw : raw[i] # "CR"}))
  IN  IF raw # <<>> /\ Head(raw) \in {" ", "TAB"}
      THEN IF lines = <<>> THEN lines
           ELSE [lines EXCEPT ![Len(lines)] = @ \o Tail(raw)]
      ELSE Append(lines, stripped)

Unfold(text) == Run(Unfolded, <<>>, SplitAt(Newlines(text), "LF"))
-----------------------------------------------------------------------------
ValidUid(uid) ==
  Trim(uid) # <<>> /\ Bytes(uid) <= 512 /\ \A i \in DOMAIN uid : uid[i] \notin {"CR", "LF", "TAB"}

\* validate_contact_input; a contact without a UID is given one first.
ValidInput(k) ==
  /\ Trim(k.full_name) # <<>>
  /\ \A f \in {"full_name", "given_name", "family_name", "organization", "title"} :
       Bytes(k[f]) <= MaxFieldBytes
  /\ Bytes(k.note) <= MaxNoteBytes
  /\ Len(k.emails) <= MaxMultiValues /\ Len(k.phones) <= MaxMultiValues
  /\ \A v \in ToSet(k.emails) \cup ToSet(k.phones) : Bytes(v) <= MaxFieldBytes
  /\ ValidUid(k.uid)

Line(name, value) == <<name, ":">> \o value

\* The logical lines of a card, in build_vcard's order.
CardLines(k) ==
  LET optional(name, value) ==
        IF value = <<>> THEN <<>> ELSE << Line(name, Escape(value)) >>
      each(name, values) == [i \in DOMAIN values |-> Line(name, Escape(values[i]))]
  IN  << <<"BEGIN", ":", "VCARD">>, <<"VERSION", ":", "4.0">>,
         Line("UID", Escape(k.uid)), Line("FN", Escape(k.full_name)),
         Line("N", Escape(k.family_name) \o <<";">> \o Escape(k.given_name)
                     \o <<";", ";", ";">>) >>
      \o each("EMAIL", k.emails) \o each("TEL", k.phones)
      \o optional("ORG", k.organization) \o optional("TITLE", k.title)
      \o optional("NOTE", k.note) \o << <<"END", ":", "VCARD">> >>

\* build_vcard: no card if it is too large.
BuildVcard(k) ==
  LET lines == CardLines(k)
      card == Run(LAMBDA out, line : out \o Fold(line) \o <<"CR", "LF">>, <<>>, lines)
  IN  IF ValidUid(k.uid) /\ Bytes(card) <= MaxVcardBytes THEN {card} ELSE {}
-----------------------------------------------------------------------------
NoFields == [uid |-> <<>>, full_name |-> <<>>, given_name |-> <<>>,
             family_name |-> <<>>, emails |-> <<>>, phones |-> <<>>,
             organization |-> <<>>, title |-> <<>>, note |-> <<>>]

\* A property's name: without its group and its parameters.
PropertyOf(head) ==
  LET base == Head(SplitAt(head, ";"))
  IN  Last(SplitAt(base, "."))

\* strip_prefix of a URI scheme
Bare(value, scheme) ==
  IF value # <<>> /\ Head(value) = scheme THEN Tail(value) ELSE value

Part(parts, n) == IF n <= Len(parts) THEN parts[n] ELSE <<>>

\* One line of parse_vcard's loop; the last of a repeated property counts.
ReadLine(k, line) ==
  LET colons == {i \in DOMAIN line : line[i] = ":"}
      at == Min(colons)
      name == PropertyOf(SubSeq(line, 1, at - 1))
      raw == SubSeq(line, at + 1, Len(line))
      value == Unescape(raw)
      parts == SplitAt(raw, ";")
  IN  IF colons = {} THEN k
      ELSE CASE name = <<"UID">>   -> [k EXCEPT !.uid = value]
             [] name = <<"FN">>    -> [k EXCEPT !.full_name = value]
             [] name = <<"N">>     -> [k EXCEPT !.family_name = Unescape(parts[1]),
                                                !.given_name = Unescape(Part(parts, 2))]
             [] name = <<"EMAIL">> -> [k EXCEPT !.emails = Append(@, Bare(value, "mailto:"))]
             [] name = <<"TEL">>   -> [k EXCEPT !.phones = Append(@, Bare(value, "tel:"))]
             [] name = <<"ORG">>   -> [k EXCEPT !.organization = Head(SplitAt(value, ";"))]
             [] name = <<"TITLE">> -> [k EXCEPT !.title = value]
             [] name = <<"NOTE">>  -> [k EXCEPT !.note = value]
             [] OTHER -> k

ParseVcard(card) == Run(ReadLine, NoFields, Unfold(card))
=============================================================================
