----------------------------- MODULE PayloadOps -----------------------------
(***************************************************************************)
(* ValidatedRequest::parse of payload.rs as operators on a JSON document.  *)
(*                                                                         *)
(* A document is a function from paths to nodes.  A path is the sequence   *)
(* of keys and array indices that leads to a node (PathSegment; the index  *)
(* i is the string "[i]", which is no key), the root is <<>>, and a node   *)
(* is a record of its kind and, for strings and Booleans, its text.  The   *)
(* recursive walks of the code are sets of paths below a prefix.           *)
(*                                                                         *)
(* Every collect_... operator returns whether the code accepts the value   *)
(* and the paths it pushes as targets of either RewriteMode.  Error values *)
(* and field classes are not told apart: both only reach the audit row.    *)
(***************************************************************************)
EXTENDS Naturals, Sequences, FiniteSets, SequencesExt

Node(kind, text) == [kind |-> kind, text |-> text]
Str(text) == Node("string", text)
Bool(text) == Node("bool", text)
Object == Node("object", "")
Array == Node("array", "")
Null == Node("null", "")
Number == Node("number", "")

Nodes == [kind : {"string", "bool", "object", "array", "null", "number"},
          text : STRING]

Index == <<"[0]", "[1]", "[2]", "[3]", "[4]">>

\* PathSegment: a key or an index.
Segments == STRING \union Range(Index)

Document(d) ==
  /\ DOMAIN d \subseteq Seq(Segments) /\ IsFiniteSet(DOMAIN d)
  /\ d \in [DOMAIN d -> Nodes]

Kind(d, p) == IF p \in DOMAIN d THEN d[p].kind ELSE "absent"

\* as_str: "" stands for None.
Text(d, p) == IF Kind(d, p) = "string" THEN d[p].text ELSE ""

\* as_bool() == Some(value)
IsBool(d, p, value) == Kind(d, p) = "bool" /\ d[p].text = value

Children(d, p) == {q \in DOMAIN d : Len(q) = Len(p) + 1 /\ IsPrefix(p, q)}
Keys(d, p) == {Last(q) : q \in Children(d, p)}
Strings(d) == {p \in DOMAIN d : d[p].kind = "string"}
StringsBelow(d, p) == {q \in Strings(d) : IsPrefix(p, q)}

ensure_allowed_keys(d, p, allowed) == Keys(d, p) \subseteq allowed
require_string(d, p, key) == Kind(d, Append(p, key)) = "string"
require_bool(d, p, key) == Kind(d, Append(p, key)) = "bool"
require_optional_string(d, p, key) ==
  Kind(d, Append(p, key)) \in {"absent", "null", "string"}

Passthrough == "internal_chat_message_metadata_passthrough"

validate_optional_metadata(d, p) ==
  LET metadata == Append(p, Passthrough)
  IN  \/ Kind(d, metadata) \in {"absent", "null"}
      \/ /\ Kind(d, metadata) = "object"
         /\ ensure_allowed_keys(d, metadata, {"turn_id"})
         /\ require_optional_string(d, metadata, "turn_id")

validate_common_item_fields(d, p) ==
  /\ \A key \in {"id", "type", "role", "phase", "author", "recipient",
                 "call_id", "name", "namespace", "status"} :
       require_optional_string(d, p, key)
  /\ validate_optional_metadata(d, p)

-----------------------------------------------------------------------------
(* Arrays of content parts *)

ensure_text_part(d, part) ==
  /\ ensure_allowed_keys(d, part, {"type", "text"})
  /\ require_string(d, part, "text")

ensure_sealed_part(d, part) ==
  /\ ensure_allowed_keys(d, part, {"type", "encrypted_content"})
  /\ require_string(d, part, "encrypted_content")

PartType(d, part) == Text(d, Append(part, "type"))

Collected(ok, rewrite, block) == [ok |-> ok, rewrite |-> rewrite, block |-> block]

\* An array of parts: text parts become rewrite targets, sealed ones are
\* accepted where the item may carry encrypted content.
collect_content_array(d, parts, textTypes, sealed) ==
  Collected(
    /\ Kind(d, parts) = "array"
    /\ \A part \in Children(d, parts) :
         /\ Kind(d, part) = "object"
         /\ \/ PartType(d, part) \in textTypes /\ ensure_text_part(d, part)
            \/ /\ sealed
               /\ PartType(d, part) = "encrypted_content"
               /\ ensure_sealed_part(d, part),
    {Append(part, "text") :
       part \in {q \in Children(d, parts) : PartType(d, q) \in textTypes}},
    {})

\* A field that is prose as a whole or an array of parts.
ProseOrParts(d, field, textTypes, sealed) ==
  IF Kind(d, field) = "string" THEN Collected(TRUE, {field}, {})
  ELSE collect_content_array(d, field, textTypes, sealed)

-----------------------------------------------------------------------------
(* Input items *)

\* c, if the item passes the tests that come before it.
Provided(tests, c) == [c EXCEPT !.ok = tests /\ @]

Plain(d, p, allowed) ==
  ensure_allowed_keys(d, p, allowed) /\ validate_common_item_fields(d, p)

collect_message(d, p) ==
  Provided(
    /\ Plain(d, p, {"id", "type", "role", "content", "phase", Passthrough})
    /\ require_string(d, p, "role"),
    ProseOrParts(d, Append(p, "content"), {"input_text", "output_text"}, FALSE))

collect_agent_message(d, p) ==
  Provided(
    /\ Plain(d, p, {"id", "type", "author", "recipient", "content", Passthrough})
    /\ require_string(d, p, "author")
    /\ require_string(d, p, "recipient"),
    collect_content_array(d, Append(p, "content"), {"input_text"}, TRUE))

collect_output_payload(d, p, more) ==
  Provided(
    /\ Plain(d, p, {"id", "type", "call_id", "output", Passthrough} \union more)
    /\ require_string(d, p, "call_id"),
    ProseOrParts(d, Append(p, "output"), {"input_text"}, TRUE))

collect_string_field(d, p, field, more) ==
  Collected(
    /\ Plain(d, p, {"id", "type", "name", "namespace", field, "call_id",
                    Passthrough} \union more)
    /\ \A key \in {"call_id", "name", field} : require_string(d, p, key),
    {Append(p, field)}, {})

collect_reasoning(d, p) ==
  LET fields == {f \in {"summary", "content"} :
                   Kind(d, Append(p, f)) \notin {"absent", "null"}}
      parts == {collect_content_array(d, Append(p, f),
                                      {"summary_text", "reasoning_text"}, FALSE) :
                  f \in fields}
  IN  Collected(
        /\ Plain(d, p, {"id", "type", "summary", "content", "encrypted_content",
                        Passthrough})
        /\ require_optional_string(d, p, "encrypted_content")
        /\ \A c \in parts : c.ok,
        UNION {c.rewrite : c \in parts}, {})

\* Free-form items: any key is accepted and every string below one that is
\* not a common field is collected by collect_all_strings.
collect_known_structural_item(d, p) ==
  Collected(
    validate_common_item_fields(d, p), {},
    UNION {StringsBelow(d, q) :
             q \in {c \in Children(d, p) :
                      Last(c) \notin {"id", "type", "call_id", "status",
                                      Passthrough}}})

collect_compaction(d, p) ==
  Collected(
    /\ Plain(d, p, {"id", "type", "encrypted_content", Passthrough})
    /\ CASE PartType(d, p) = "compaction_trigger" ->
              "encrypted_content" \notin Keys(d, p)
         [] PartType(d, p) = "context_compaction" ->
              require_optional_string(d, p, "encrypted_content")
         [] OTHER -> require_string(d, p, "encrypted_content"),
    {}, {})

-----------------------------------------------------------------------------
(* Tool definitions *)

\* The key under which collect_tool_value meets the string at q: the last
\* segment that is not an array index, "" inside no object of the array.
NearestKey(tools, q) ==
  LET keyed == {i \in (Len(tools) + 1)..Len(q) : q[i] \notin Range(Index)}
  IN  IF keyed = {} THEN "" ELSE q[CHOOSE i \in keyed : \A j \in keyed : j <= i]

\* Every string of the definitions but the identifiers, which are left to
\* collect_untracked_strings.
collect_tool_array(d, tools) ==
  Collected(
    Kind(d, tools) = "array", {},
    {q \in StringsBelow(d, tools) :
       NearestKey(tools, q) \notin {"name", "type", "namespace", "id", "$id",
                                    "$ref"}})

collect_additional_tools(d, p) ==
  Provided(
    /\ Plain(d, p, {"id", "type", "role", "tools"})
    /\ require_string(d, p, "role"),
    collect_tool_array(d, Append(p, "tools")))

collect_input_item(d, p) ==
  LET type == PartType(d, p) IN
  IF Kind(d, p) # "object" THEN Collected(FALSE, {}, {})
  ELSE CASE type = "message" -> collect_message(d, p)
         [] type = "agent_message" -> collect_agent_message(d, p)
         [] type = "function_call_output" -> collect_output_payload(d, p, {})
         [] type = "custom_tool_call_output" -> collect_output_payload(d, p, {"name"})
         [] type = "function_call" -> collect_string_field(d, p, "arguments", {})
         [] type = "custom_tool_call" -> collect_string_field(d, p, "input", {"status"})
         [] type = "additional_tools" -> collect_additional_tools(d, p)
         [] type = "reasoning" -> collect_reasoning(d, p)
         [] type \in {"local_shell_call", "tool_search_call",
                      "tool_search_output", "web_search_call"} ->
              collect_known_structural_item(d, p)
         [] type \in {"compaction", "compaction_summary", "context_compaction",
                      "compaction_trigger"} -> collect_compaction(d, p)
         [] OTHER -> Collected(FALSE, {}, {})

-----------------------------------------------------------------------------
(* Top level *)

validate_text_controls(d, p) ==
  LET format == Append(p, "format") IN
  /\ ensure_allowed_keys(d, p, {"verbosity", "format"})
  /\ require_optional_string(d, p, "verbosity")
  /\ \/ Kind(d, format) \in {"absent", "null"}
     \/ /\ Kind(d, format) = "object"
        /\ require_string(d, format, "type")
        /\ \/ /\ PartType(d, format) = "text"
              /\ ensure_allowed_keys(d, format, {"type"})
           \/ /\ PartType(d, format) = "json_schema"
              /\ ensure_allowed_keys(d, format, {"type", "strict", "schema", "name"})
              /\ require_bool(d, format, "strict")
              /\ require_string(d, format, "name")
              /\ "schema" \in Keys(d, format)

MaxInclude == 4

validate_top_level_controls(d) ==
  LET include == Children(d, <<"include">>) IN
  /\ Text(d, <<"tool_choice">>) = "auto"
  /\ \/ Kind(d, <<"reasoning">>) \in {"absent", "null"}
     \/ /\ Kind(d, <<"reasoning">>) = "object"
        /\ ensure_allowed_keys(d, <<"reasoning">>, {"effort", "summary", "context"})
        /\ \A key \in {"effort", "summary", "context"} :
             require_optional_string(d, <<"reasoning">>, key)
  /\ \/ Kind(d, <<"stream_options">>) = "absent"
     \/ /\ Kind(d, <<"stream_options">>) = "object"
        /\ ensure_allowed_keys(d, <<"stream_options">>, {"reasoning_summary_delivery"})
        /\ require_string(d, <<"stream_options">>, "reasoning_summary_delivery")
  /\ \/ Kind(d, <<"include">>) = "absent"
     \/ /\ Kind(d, <<"include">>) = "array"
        /\ \A entry \in include :
             d[entry] = Str("reasoning.encrypted_content")
        /\ Cardinality(include) <= MaxInclude
  /\ require_optional_string(d, <<>>, "service_tier")
  /\ require_optional_string(d, <<>>, "prompt_cache_key")
  /\ \/ Kind(d, <<"text">>) \in {"absent", "null"}
     \/ Kind(d, <<"text">>) = "object" /\ validate_text_controls(d, <<"text">>)

TopLevel == {"model", "instructions", "input", "tools", "tool_choice",
             "parallel_tool_calls", "reasoning", "store", "stream",
             "stream_options", "include", "service_tier", "prompt_cache_key",
             "text", "client_metadata"}

RequiredFields(d) ==
  /\ Kind(d, <<>>) = "object"
  /\ ensure_allowed_keys(d, <<>>, TopLevel)
  /\ require_string(d, <<>>, "model")
  /\ require_bool(d, <<>>, "store")
  /\ IsBool(d, <<"store">>, "false")
  /\ require_string(d, <<>>, "tool_choice")
  /\ require_bool(d, <<>>, "parallel_tool_calls")
  /\ IsBool(d, <<"stream">>, "true")

collect_instructions(d) ==
  CASE Kind(d, <<"instructions">>) = "absent" -> Collected(TRUE, {}, {})
    [] OTHER -> Collected(Kind(d, <<"instructions">>) = "string",
                          {<<"instructions">>}, {})

collect_input(d) ==
  LET items == {collect_input_item(d, p) : p \in Children(d, <<"input">>)}
  IN  CASE Kind(d, <<"input">>) = "string" -> Collected(TRUE, {<<"input">>}, {})
        [] Kind(d, <<"input">>) = "array" ->
             Collected(\A c \in items : c.ok, UNION {c.rewrite : c \in items},
                       UNION {c.block : c \in items})
        [] OTHER -> Collected(FALSE, {}, {})

collect_tools(d) ==
  CASE Kind(d, <<"tools">>) = "absent" -> Collected(TRUE, {}, {})
    [] OTHER -> collect_tool_array(d, <<"tools">>)

collect_client_metadata(d) ==
  LET values == Children(d, <<"client_metadata">>)
  IN  CASE Kind(d, <<"client_metadata">>) = "absent" -> Collected(TRUE, {}, {})
        [] OTHER -> Collected(/\ Kind(d, <<"client_metadata">>) = "object"
                              /\ \A q \in values : Kind(d, q) = "string",
                              {}, values)

-----------------------------------------------------------------------------
(* The parse result *)

\* An optional key; the empty string is one that an object may have.
NoLiteral == <<>>

TextTarget(path, mode) == [path |-> path, literal |-> NoLiteral, mode |-> mode]

structural_literal(key) == [path |-> <<>>, literal |-> <<key>>, mode |-> "block_only"]

\* Values only, as if keys were not text.
collect_untracked_stringsBug(d, targets) ==
  {TextTarget(p, "block_only") : p \in Strings(d) \ {t.path : t \in targets}}

\* Every string again, whether or not it has a target.
collect_untracked_stringsTwiceBug(d, targets) ==
  {TextTarget(p, "block_only") : p \in Strings(d)}
  \union {structural_literal(key) :
            key \in UNION {Keys(d, p) : p \in {q \in DOMAIN d : d[q].kind = "object"}}}

\* Every string no earlier target has the path of, and every object key.
collect_untracked_strings(d, targets) ==
  {TextTarget(p, "block_only") : p \in Strings(d) \ {t.path : t \in targets}}
  \union {structural_literal(key) :
            key \in UNION {Keys(d, p) : p \in {q \in DOMAIN d : d[q].kind = "object"}}}

\* parse(d).ok says whether the request is accepted; the targets count only
\* then.  A collector runs only if the earlier tests passed.
parse(d) ==
  LET collected == {collect_instructions(d), collect_input(d), collect_tools(d),
                    collect_client_metadata(d)}
      targets == UNION {{TextTarget(p, "rewrite") : p \in c.rewrite} \union
                        {TextTarget(p, "block_only") : p \in c.block} : c \in collected}
  IN  IF ~(RequiredFields(d) /\ validate_top_level_controls(d)
           /\ \A c \in collected : c.ok)
      THEN [ok |-> FALSE, targets |-> {}]
      ELSE [ok |-> TRUE,
            targets |-> targets \union collect_untracked_strings(d, targets)]
=============================================================================
