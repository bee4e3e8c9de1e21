------------------------------- MODULE Payload -------------------------------
(***************************************************************************)
(* The life of one request body in payload.rs, as engine.rs drives it: the *)
(* client composes a JSON document, parse accepts it and collects its text *)
(* targets, protect inspects every target, rewrites what it may and        *)
(* forwards the serialized value.                                          *)
(*                                                                         *)
(* The client may compose anything: it starts from one well-formed body    *)
(* per item type (Templates) and changes it in up to MaxEdits places.      *)
(* Texts are atoms, of which Sensitive are the ones the detectors find;    *)
(* what a finding is and how it is replaced is the matter of PrivacyEngine.*)
(***************************************************************************)
EXTENDS PayloadOps

CONSTANTS Templates,     \* documents the client starts from
          MaxEdits,      \* changes the client makes to one
          EditNodes,     \* what it puts somewhere
          EditKeys,      \* keys it adds
          Sensitive,     \* texts in which the detectors find something
          Replacement    \* the text with the finding masked or tokenized

\* The detectors find nothing in an empty text.
ASSUME PayloadAssumption ==
  /\ \A d \in Templates : Document(d)
  /\ EditNodes \subseteq Nodes /\ EditKeys \subseteq STRING
  /\ "" \notin Sensitive /\ Replacement \in STRING

VARIABLES body,          \* what the client composed
          duplicate,     \* an object of the body repeats a key
          edits,
          phase,
          value,         \* ValidatedRequest.value
          targets        \* ValidatedRequest.targets

payloadVars == <<body, duplicate, edits, phase, value, targets>>

Phases == {"draft", "rejected", "parsed", "blocked", "rewriting", "sent"}

PayloadInit ==
  /\ body \in Templates
  /\ duplicate = FALSE
  /\ edits = 0
  /\ phase = "draft"
  /\ value = body
  /\ targets = {}

-----------------------------------------------------------------------------
(* The client *)

\* Where a value can be put: on any node, under a new key of an object, or
\* behind the last element of an array.
Slots ==
  DOMAIN body
  \union {Append(p, key) : p \in {q \in DOMAIN body : body[q].kind = "object"},
                           key \in EditKeys}
  \union {Append(p, Index[Cardinality(Children(body, p)) + 1]) :
            p \in {q \in DOMAIN body : /\ body[q].kind = "array"
                                       /\ Cardinality(Children(body, q)) < Len(Index)}}

Without(p) == {q \in DOMAIN body : ~IsPrefix(p, q)}

Compose(d) ==
  /\ phase = "draft"
  /\ edits < MaxEdits
  /\ edits' = edits + 1
  /\ body' = d
  /\ value' = d
  /\ UNCHANGED <<phase, targets>>

Put ==
  /\ \E p \in Slots, n \in EditNodes :
       Compose([q \in Without(p) \union {p} |-> IF q = p THEN n ELSE body[q]])
  /\ UNCHANGED duplicate

\* Removes a field, or the last element of an array.
Delete ==
  /\ \E p \in DOMAIN body \ {<<>>} :
       /\ body[Front(p)].kind = "array" =>
            Last(p) = Index[Cardinality(Children(body, Front(p)))]
       /\ Compose([q \in Without(p) |-> body[q]])
  /\ UNCHANGED duplicate

RepeatKey ==
  /\ ~duplicate
  /\ duplicate' = TRUE
  /\ Compose(body)

-----------------------------------------------------------------------------
(* The gateway *)

\* UniqueValue refuses a repeated key at any depth, parse the rest.
Parse ==
  LET result == parse(body) IN
  /\ phase = "draft"
  /\ phase' = IF ~duplicate /\ result.ok THEN "parsed" ELSE "rejected"
  /\ targets' = IF ~duplicate THEN result.targets ELSE {}
  /\ UNCHANGED <<body, duplicate, edits, value>>

\* ValidatedRequest::text
text(t) == IF t.literal # NoLiteral THEN Head(t.literal) ELSE Text(value, t.path)

\* protect scans every target; a finding in a block-only one blocks.
Inspect ==
  /\ phase = "parsed"
  /\ phase' = IF \E t \in targets : t.mode = "block_only" /\ text(t) \in Sensitive
              THEN "blocked" ELSE "rewriting"
  /\ UNCHANGED <<body, duplicate, edits, value, targets>>

\* locate_mut stops one segment early.
replace_textBug(t) ==
  [p \in {q \in DOMAIN value : ~IsStrictPrefix(Front(t.path), q)} |->
     IF p = Front(t.path) THEN Str(Replacement) ELSE value[p]]

replace_text(t) == [value EXCEPT ![t.path] = Str(Replacement)]

\* apply_rewrites, one target at a time; replace_text refuses literals.
ReplaceText ==
  /\ phase = "rewriting"
  /\ \E t \in targets :
       /\ text(t) \in Sensitive
       /\ t.literal = NoLiteral
       /\ value' = replace_text(t)
  /\ UNCHANGED <<body, duplicate, edits, phase, targets>>

Serialize ==
  /\ phase = "rewriting"
  /\ \A t \in targets : text(t) \notin Sensitive
  /\ phase' = "sent"
  /\ UNCHANGED <<body, duplicate, edits, value, targets>>

PayloadNext == Put \/ Delete \/ RepeatKey \/ Parse \/ Inspect \/ ReplaceText \/ Serialize

PayloadSpec == PayloadInit /\ [][PayloadNext]_payloadVars

-----------------------------------------------------------------------------
(* Properties *)

Inspected == phase \in {"parsed", "rewriting", "sent"}

\* From parse until the value is serialized every string of an accepted
\* request has exactly one target and every target still names a string, so
\* text and replace_text never fail and no string escapes inspection or is
\* judged in two modes; every object key has a literal target
\* (payload.rs:125-129, "Every string byte in the accepted request is either
\* a rewrite target above or a fail-closed structural target here").
EveryStringOneTarget ==
  Inspected =>
    /\ \A p \in Strings(value) :
         Cardinality({t \in targets : t.literal = NoLiteral /\ t.path = p}) = 1
    /\ \A t \in targets : t.literal = NoLiteral => t.path \in Strings(value)
    /\ \A p \in DOMAIN value : value[p].kind = "object" =>
         \A key \in Keys(value, p) : structural_literal(key) \in targets

\* Wherever the client put a sensitive text, in a prose field, a control, an
\* identifier, a tool schema or an object key, the serialized request does not
\* carry it: the field is rewritten or the request is stopped.
NothingSensitiveSent ==
  phase = "sent" =>
    \A p \in DOMAIN value :
      /\ Text(value, p) \notin Sensitive
      /\ value[p].kind = "object" => Keys(value, p) \intersect Sensitive = {}

\* The prose fields of docs/PAYLOAD_MAP.md: instructions, a string input, the
\* string field of an item, the text of a part.
Prose(p) ==
  \/ p \in {<<"instructions">>, <<"input">>}
  \/ /\ Len(p) = 3
     /\ p[1] = "input"
     /\ p[3] \in {"content", "output", "arguments", "input"}
  \/ /\ Len(p) = 5
     /\ p[1] = "input"
     /\ p[3] \in {"content", "output", "summary"}
     /\ p[5] = "text"

\* Rewriting changes prose and nothing else: identifiers, controls, encrypted
\* replay fields, tool schemas and metadata are forwarded as the client wrote
\* them (docs/PAYLOAD_MAP.md:16, "scan the string but never alter it").
OnlyProseRewritten ==
  /\ DOMAIN value = DOMAIN body
  /\ \A p \in DOMAIN value : value[p] # body[p] => Prose(p)

\* While it is rewritten a request changes in its prose only, and what is sent
\* is still one that parse accepts, with the same targets: replacing text never
\* turns a request into another shape, so what was inspected is what the
\* upstream will read.
RewriteKeepsShape ==
  /\ phase \in {"rewriting", "sent"} => OnlyProseRewritten
  /\ phase = "sent" => parse(value) = [ok |-> TRUE, targets |-> targets]

=============================================================================
