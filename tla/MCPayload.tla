------------------------------ MODULE MCPayload ------------------------------
(* One small body for each item type, and one with every top-level control. *)
EXTENDS Payload

\* The fields every request must have.
Root ==
  (<<>> :> Object) @@ (<<"model">> :> Str("plain")) @@
  (<<"store">> :> Bool("false")) @@ (<<"stream">> :> Bool("true")) @@
  (<<"tool_choice">> :> Str("auto")) @@
  (<<"parallel_tool_calls">> :> Bool("true"))

\* The fields of a node: a record of nodes, put below its path.
Below(p, fields) ==
  [q \in {Append(p, key) : key \in DOMAIN fields} |-> fields[Last(q)]]

Item == <<"input", "[0]">>

\* A request whose input is one item with these fields and children.
OneItem(type, fields, rest) ==
  Root @@ (<<"input">> :> Array) @@ (Item :> Object) @@
  (Append(Item, "type") :> Str(type)) @@ Below(Item, fields) @@ rest

Part(field, type) ==
  LET part == Item \o <<field, "[0]">>
      key == IF type = "encrypted_content" THEN type ELSE "text"
  IN  (part :> Object) @@ (Append(part, "type") :> Str(type)) @@
      (Append(part, key) :> Str("plain"))

None == [p \in {} |-> Null]
P == Str("plain")
Call == [call_id |-> P, name |-> P]

Tool(tools) ==
  LET tool == Append(tools, "[0]") IN
  (tool :> Object) @@
  Below(tool, [name |-> P, description |-> P, required |-> Array]) @@
  (tool \o <<"required", "[0]">> :> P)

MCTemplates == {
  Root @@ (<<"input">> :> P) @@ (<<"instructions">> :> P) @@
    (<<"client_metadata">> :> Object) @@ (<<"client_metadata", "id">> :> P),
  Root @@ (<<"input">> :> Array) @@ (<<"tools">> :> Array) @@ Tool(<<"tools">>),
  Root @@ (<<"input">> :> P) @@ (<<"reasoning">> :> Object) @@
    (<<"reasoning", "effort">> :> P) @@ (<<"stream_options">> :> Object) @@
    (<<"stream_options", "reasoning_summary_delivery">> :> P) @@
    (<<"include">> :> Array) @@
    [q \in {<<"include", Index[i]>> : i \in 1..MaxInclude} |->
       Str("reasoning.encrypted_content")] @@
    (<<"service_tier">> :> Null),
  Root @@ (<<"input">> :> P) @@ (<<"text">> :> Object) @@
    (<<"text", "format">> :> Object) @@
    Below(<<"text", "format">>, [type |-> Str("json_schema"), strict |-> Bool("true"),
                                 name |-> P, schema |-> Object]) @@
    (<<"text", "format", "schema", "title">> :> P),
  OneItem("message", [role |-> P, content |-> P], None),
  OneItem("message", [role |-> P, content |-> Array], Part("content", "input_text")),
  OneItem("agent_message", [author |-> P, recipient |-> P, content |-> Array],
          Part("content", "input_text")),
  OneItem("agent_message", [author |-> P, recipient |-> P, content |-> Array],
          Part("content", "encrypted_content")),
  OneItem("function_call_output", [call_id |-> P, output |-> Array],
          Part("output", "input_text")),
  OneItem("custom_tool_call_output", [call_id |-> P, name |-> P, output |-> P], None),
  OneItem("function_call", [arguments |-> P] @@ Call, None),
  OneItem("custom_tool_call", [input |-> P, status |-> P] @@ Call, None),
  OneItem("additional_tools", [role |-> P, tools |-> Array],
          Tool(Append(Item, "tools"))),
  OneItem("reasoning", [summary |-> Array, content |-> Null,
                        encrypted_content |-> P],
          Part("summary", "summary_text")),
  OneItem("web_search_call", [action |-> Object, status |-> P],
          (Item \o <<"action", "query">> :> P)),
  OneItem("compaction", [encrypted_content |-> P],
          (Append(Item, Passthrough) :> Object) @@
          (Item \o <<Passthrough, "turn_id">> :> P)),
  OneItem("context_compaction", [encrypted_content |-> Null], None),
  OneItem("compaction_trigger", [id |-> P], None) }

MCEditNodes == {Str("plain"), Str("secret"), Bool("true"), Null, Object, Array}
=============================================================================
