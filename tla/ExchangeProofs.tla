--------------------------- MODULE ExchangeProofs ---------------------------
(***************************************************************************)
(* The two bodies of an exchange: the request that payload.rs validates    *)
(* and rewrites, for every document a client can compose, and the event    *)
(* stream that sse.rs relays, for any stream, any chunks and any limits.   *)
(*                                                                         *)
(* Request.  Two facts about parse carry the argument.  Documents that     *)
(* differ in nothing but the text of prose strings are parsed alike        *)
(* (KinParse): each test and each collector reads kinds, keys and the text *)
(* of fields that are never prose.  And an accepted document collects      *)
(* strings of its own, prose to rewrite and the rest to block, no string   *)
(* twice (TargetsAre): the collectors work on fields of their own, the     *)
(* items of the input are told apart by their index, one item rewrites or  *)
(* blocks but not both, and collect_untracked_strings takes what they      *)
(* left.  So replace_text leaves the value in the relation Kin to the      *)
(* body, the targets found before rewriting are the targets after it, and  *)
(* the text of a target that only blocks is what Inspect saw.              *)
(*                                                                         *)
(* Response.  The reference CutAt cuts a stream byte by byte at the blank  *)
(* lines it completes; what is cut at a byte depends on the bytes up to it *)
(* (CutLocal) and never changes later (CutGrows).  find_frame_end instead  *)
(* looks for the first blank line that begins, which is the first that is  *)
(* completed (FrameEnd), so one round of push's loop on the rest of a      *)
(* stream takes off the stream's next frame (NextFrame, DrainStep) and the *)
(* loop all of them (DrainedReaches).  SInv then relates what the client   *)
(* has, what is buffered and what the upstream sent.                       *)
(***************************************************************************)
EXTENDS Payload, SseTransformer, FiniteSetTheorems, SequenceTheorems,
        WellFoundedInduction, TLAPS

-----------------------------------------------------------------------------
(* The request body *)

\* The segments of documents and the field names of payload.rs.
Segment == Segments \union {"type", "content", "output", "summary", "tools", "text",
                            "arguments", "input", "instructions",
                            "client_metadata", "include", "format"}

Path == Seq(Segment)

\* The nodes of a document have paths.
LEMMA DocumentPaths ==
  ASSUME NEW d, Document(d)
  PROVE  DOMAIN d \subseteq Path
<1>1. Seq(Segments) \subseteq Seq(Segment)
  <2> SUFFICES ASSUME NEW s \in Seq(Segments) PROVE s \in Seq(Segment)
    OBVIOUS
  <2>1. \A i \in 1..Len(s) : s[i] \in Segment
    BY DEF Segment
  <2> QED BY <2>1
<1> QED BY <1>1 DEF Document, Path

-----------------------------------------------------------------------------
(* Paths *)

\* A key added to a path.
LEMMA AppendIs ==
  ASSUME NEW p \in Path, NEW key \in Segment
  PROVE  /\ Append(p, key) \in Path /\ Len(Append(p, key)) = Len(p) + 1
         /\ Append(p, key)[Len(p) + 1] = key
         /\ \A i \in 1..Len(p) : Append(p, key)[i] = p[i]
         /\ Len(p) \in Nat
<1>1. Len(p) \in Nat
  BY DEF Path
<1>2. Append(p, key) \in Path
  BY AppendProperties, Zenon DEF Path
<1>3. Len(Append(p, key)) = Len(p) + 1
  BY DEF Path
<1>4. Append(p, key)[Len(p) + 1] = key
  BY AppendProperties, Zenon DEF Path
<1>5. \A i \in 1..Len(p) : Append(p, key)[i] = p[i]
  BY DEF Path
<1> QED BY <1>1, <1>2, <1>3, <1>4, <1>5

\* Paths of the same segments are the same.
LEMMA SamePath ==
  ASSUME NEW p \in Path, NEW q \in Path, Len(p) = Len(q),
         \A i \in 1..Len(p) : p[i] = q[i]
  PROVE  p = q
BY DEF Path

\* A prefix, segment by segment.
LEMMA PrefixIs ==
  ASSUME NEW p \in Path, NEW q \in Path
  PROVE  IsPrefix(p, q) <=> Len(p) <= Len(q) /\ \A i \in 1..Len(p) : q[i] = p[i]
<1>0. Len(p) \in Nat /\ Len(q) \in Nat
  BY DEF Path
<1>1. ASSUME Len(p) <= Len(q)
      PROVE  SubSeq(p, 1, Len(p)) = SubSeq(q, 1, Len(p)) <=>
               \A i \in 1..Len(p) : q[i] = p[i]
  <2> DEFINE u == SubSeq(p, 1, Len(p))
             v == SubSeq(q, 1, Len(p))
  <2>1. u \in Path /\ Len(u) = Len(p) /\ \A i \in 1..Len(p) : u[i] = p[i]
    BY <1>0 DEF Path
  <2>2. v \in Path /\ Len(v) = Len(p) /\ \A i \in 1..Len(p) : v[i] = q[i]
    BY <1>0, <1>1 DEF Path
  <2> HIDE DEF u, v
  <2>3. u = v <=> \A i \in 1..Len(p) : q[i] = p[i]
    BY <2>1, <2>2, SamePath
  <2> QED BY <2>3 DEF u, v
<1> QED BY <1>1 DEF IsPrefix

\* A child is its parent's path and one key more.
LEMMA ChildIs ==
  ASSUME NEW d, Document(d), NEW p \in Path, NEW q \in Children(d, p)
  PROVE  /\ q \in DOMAIN d /\ q \in Path /\ Len(q) = Len(p) + 1 /\ Len(p) \in Nat
         /\ \A i \in 1..Len(p) : q[i] = p[i]
         /\ q[Len(p) + 1] \in Segment
         /\ q = Append(p, q[Len(p) + 1])
<1>1. q \in DOMAIN d /\ q \in Path /\ Len(q) = Len(p) + 1 /\ IsPrefix(p, q)
  BY DocumentPaths DEF Children
<1>2. Len(p) \in Nat
  BY DEF Path
<1>3. \A i \in 1..Len(p) : q[i] = p[i]
  BY <1>1, PrefixIs
<1>4. q[Len(p) + 1] \in Segment
  BY <1>1, <1>2 DEF Path
<1> DEFINE r == Append(p, q[Len(p) + 1])
<1>5. /\ r \in Path /\ Len(r) = Len(p) + 1 /\ r[Len(p) + 1] = q[Len(p) + 1]
      /\ \A i \in 1..Len(p) : r[i] = p[i]
  BY <1>4, AppendIs
<1> HIDE DEF r
<1>6. \A i \in 1..Len(q) : q[i] = r[i]
  BY <1>1, <1>2, <1>3, <1>5
<1>7. q = r
  BY <1>1, <1>5, <1>6, SamePath
<1> QED BY <1>1, <1>2, <1>3, <1>4, <1>7 DEF r

-----------------------------------------------------------------------------
(* Documents that differ in prose only *)

\* The same nodes, but for the text of strings in prose fields.
Kin(d, e) ==
  /\ DOMAIN d = DOMAIN e
  /\ \A p \in DOMAIN d :
       d[p] = e[p] \/ (Prose(p) /\ d[p].kind = "string" /\ e[p].kind = "string")

\* No prose field is called type.
LEMMA TypeIsNoProse ==
  ASSUME NEW p \in Path
  PROVE  ~Prose(Append(p, "type"))
<1> DEFINE q == Append(p, "type")
<1>0. "type" \in Segment
  BY DEF Segment
<1>1. /\ q \in Path /\ Len(q) = Len(p) + 1 /\ q[Len(p) + 1] = "type"
      /\ Len(p) \in Nat
  BY <1>0, AppendIs, Zenon
<1> HIDE DEF q
<1>2. q[Len(q)] = "type"
  BY <1>1
<1>3. q # <<"instructions">> /\ q # <<"input">>
  BY <1>2
<1>4. ~Prose(q)
  BY <1>2, <1>3 DEF Prose
<1> QED BY <1>4 DEF q

\* What the operators of parse read of a document.
LEMMA KinReads ==
  ASSUME NEW d, NEW e, Kin(d, e)
  PROVE  /\ \A p : Kind(d, p) = Kind(e, p)
         /\ \A p : Children(d, p) = Children(e, p)
         /\ \A p : Keys(d, p) = Keys(e, p)
         /\ Strings(d) = Strings(e)
         /\ \A p : StringsBelow(d, p) = StringsBelow(e, p)
         /\ \A p : ~Prose(p) => Text(d, p) = Text(e, p)
         /\ \A p, b : IsBool(d, p, b) <=> IsBool(e, p, b)
         /\ \A p \in Path : PartType(d, p) = PartType(e, p)
<1>1. \A p : Kind(d, p) = Kind(e, p)
  BY DEF Kin, Kind
<1>2. \A p : Children(d, p) = Children(e, p)
  BY DEF Kin, Children
<1>3. \A p : Keys(d, p) = Keys(e, p)
  BY <1>2 DEF Keys
<1>4. Strings(d) = Strings(e)
  BY DEF Kin, Strings
<1>5. \A p : StringsBelow(d, p) = StringsBelow(e, p)
  BY <1>4 DEF StringsBelow
<1>6. \A p : ~Prose(p) => Text(d, p) = Text(e, p)
  BY <1>1 DEF Kin, Kind, Text
<1>7. \A p, b : IsBool(d, p, b) <=> IsBool(e, p, b)
  BY DEF Kin, Kind, IsBool
<1>8. \A p \in Path : PartType(d, p) = PartType(e, p)
  BY <1>6, TypeIsNoProse DEF PartType
<1> QED BY <1>1, <1>2, <1>3, <1>4, <1>5, <1>6, <1>7, <1>8

LEMMA KinTests ==
  ASSUME NEW d, NEW e, Kin(d, e)
  PROVE  /\ \A p, allowed : ensure_allowed_keys(d, p, allowed) <=>
                            ensure_allowed_keys(e, p, allowed)
         /\ \A p, key : require_string(d, p, key) <=> require_string(e, p, key)
         /\ \A p, key : require_bool(d, p, key) <=> require_bool(e, p, key)
         /\ \A p, key : require_optional_string(d, p, key) <=>
                        require_optional_string(e, p, key)
         /\ \A p, allowed : Plain(d, p, allowed) <=> Plain(e, p, allowed)
         /\ \A p : validate_common_item_fields(d, p) <=>
                   validate_common_item_fields(e, p)
<1>1. \A p, allowed : ensure_allowed_keys(d, p, allowed) <=>
                      ensure_allowed_keys(e, p, allowed)
  BY KinReads DEF ensure_allowed_keys
<1>2. \A p, key : require_string(d, p, key) <=> require_string(e, p, key)
  BY KinReads DEF require_string
<1>3. \A p, key : require_bool(d, p, key) <=> require_bool(e, p, key)
  BY KinReads DEF require_bool
<1>4. \A p, key : require_optional_string(d, p, key) <=>
                  require_optional_string(e, p, key)
  BY KinReads DEF require_optional_string
<1>5. \A p : validate_optional_metadata(d, p) <=> validate_optional_metadata(e, p)
  BY KinReads, <1>1, <1>4 DEF validate_optional_metadata
<1>6. \A p : validate_common_item_fields(d, p) <=> validate_common_item_fields(e, p)
  BY <1>4, <1>5 DEF validate_common_item_fields
<1>7. \A p, allowed : Plain(d, p, allowed) <=> Plain(e, p, allowed)
  BY <1>1, <1>6 DEF Plain
<1> QED BY <1>1, <1>2, <1>3, <1>4, <1>6, <1>7

LEMMA KinParts ==
  ASSUME NEW d, NEW e, Document(d), Kin(d, e), NEW parts \in Path, NEW textTypes,
         NEW sealed
  PROVE  /\ collect_content_array(d, parts, textTypes, sealed) =
              collect_content_array(e, parts, textTypes, sealed)
         /\ ProseOrParts(d, parts, textTypes, sealed) =
              ProseOrParts(e, parts, textTypes, sealed)
<1>1. \A part \in Children(d, parts) : PartType(d, part) = PartType(e, part)
  BY KinReads, ChildIs
<1>2. Children(d, parts) = Children(e, parts) /\ Kind(d, parts) = Kind(e, parts)
  BY KinReads
<1>3. \A part : /\ ensure_text_part(d, part) <=> ensure_text_part(e, part)
                /\ ensure_sealed_part(d, part) <=> ensure_sealed_part(e, part)
                /\ Kind(d, part) = Kind(e, part)
  BY KinReads, KinTests DEF ensure_text_part, ensure_sealed_part
<1>4. {q \in Children(d, parts) : PartType(d, q) \in textTypes} =
        {q \in Children(e, parts) : PartType(e, q) \in textTypes}
  BY <1>1, <1>2
<1>5. collect_content_array(d, parts, textTypes, sealed) =
        collect_content_array(e, parts, textTypes, sealed)
  BY <1>1, <1>2, <1>3, <1>4 DEF collect_content_array
<1>6. ProseOrParts(d, parts, textTypes, sealed) =
        ProseOrParts(e, parts, textTypes, sealed)
  BY <1>2, <1>5 DEF ProseOrParts
<1> QED BY <1>5, <1>6

LEMMA KinTools ==
  ASSUME NEW d, NEW e, Kin(d, e)
  PROVE  \A tools : collect_tool_array(d, tools) = collect_tool_array(e, tools)
BY KinReads DEF collect_tool_array

LEMMA KinItem ==
  ASSUME NEW d, NEW e, Document(d), Kin(d, e), NEW p \in Path
  PROVE  collect_input_item(d, p) = collect_input_item(e, p)
<1>a. \A key \in Segment : Append(p, key) \in Path
  BY AppendIs
<1>b. \A key \in Segment : \A textTypes, sealed :
        /\ collect_content_array(d, Append(p, key), textTypes, sealed) =
             collect_content_array(e, Append(p, key), textTypes, sealed)
        /\ ProseOrParts(d, Append(p, key), textTypes, sealed) =
             ProseOrParts(e, Append(p, key), textTypes, sealed)
  BY <1>a, KinParts
<1>c. "content" \in Segment /\ "output" \in Segment /\ "summary" \in Segment
  BY DEF Segment
<1>1. collect_message(d, p) = collect_message(e, p)
  <2> DEFINE Tests(x) ==
        /\ Plain(x, p, {"id", "type", "role", "content", "phase", Passthrough})
        /\ require_string(x, p, "role")
  <2>1. Tests(d) = Tests(e)
    BY KinTests
  <2> HIDE DEF Tests
  <2>2. \A x : collect_message(x, p) =
          Provided(Tests(x), ProseOrParts(x, Append(p, "content"),
                                          {"input_text", "output_text"}, FALSE))
    BY DEF collect_message, Tests
  <2>3. ProseOrParts(d, Append(p, "content"), {"input_text", "output_text"}, FALSE) =
          ProseOrParts(e, Append(p, "content"), {"input_text", "output_text"}, FALSE)
    BY <1>b, <1>c
  <2> QED BY <2>1, <2>2, <2>3, Zenon
<1>2. collect_agent_message(d, p) = collect_agent_message(e, p)
  <2> DEFINE Tests(x) ==
        /\ Plain(x, p, {"id", "type", "author", "recipient", "content", Passthrough})
        /\ require_string(x, p, "author")
        /\ require_string(x, p, "recipient")
  <2>1. Tests(d) = Tests(e)
    BY KinTests
  <2> HIDE DEF Tests
  <2>2. \A x : collect_agent_message(x, p) =
          Provided(Tests(x), collect_content_array(x, Append(p, "content"),
                                                   {"input_text"}, TRUE))
    BY DEF collect_agent_message, Tests
  <2>3. collect_content_array(d, Append(p, "content"), {"input_text"}, TRUE) =
          collect_content_array(e, Append(p, "content"), {"input_text"}, TRUE)
    BY <1>b, <1>c
  <2> QED BY <2>1, <2>2, <2>3, Zenon
<1>3. ASSUME NEW more
      PROVE  collect_output_payload(d, p, more) = collect_output_payload(e, p, more)
  <2> DEFINE Tests(x) ==
        /\ Plain(x, p, {"id", "type", "call_id", "output", Passthrough} \union more)
        /\ require_string(x, p, "call_id")
  <2>1. Tests(d) = Tests(e)
    BY KinTests
  <2> HIDE DEF Tests
  <2>2. \A x : collect_output_payload(x, p, more) =
          Provided(Tests(x), ProseOrParts(x, Append(p, "output"),
                                          {"input_text"}, TRUE))
    BY DEF collect_output_payload, Tests
  <2>3. ProseOrParts(d, Append(p, "output"), {"input_text"}, TRUE) =
          ProseOrParts(e, Append(p, "output"), {"input_text"}, TRUE)
    BY <1>b, <1>c
  <2> QED BY <2>1, <2>2, <2>3, Zenon
<1>4. ASSUME NEW field, NEW more
      PROVE  collect_string_field(d, p, field, more) =
               collect_string_field(e, p, field, more)
  <2> DEFINE Tests(x) ==
        /\ Plain(x, p, {"id", "type", "name", "namespace", field, "call_id",
                        Passthrough} \union more)
        /\ \A key \in {"call_id", "name", field} : require_string(x, p, key)
  <2>1. Tests(d) = Tests(e)
    BY KinTests
  <2> HIDE DEF Tests
  <2>2. \A x : collect_string_field(x, p, field, more) =
                 Collected(Tests(x), {Append(p, field)}, {})
    BY DEF collect_string_field, Tests
  <2> QED BY <2>1, <2>2
<1>5. collect_reasoning(d, p) = collect_reasoning(e, p)
  <2> DEFINE Fields(x) == {f \in {"summary", "content"} :
                             Kind(x, Append(p, f)) \notin {"absent", "null"}}
             Parts(x) == {collect_content_array(x, Append(p, f),
                            {"summary_text", "reasoning_text"}, FALSE) :
                            f \in Fields(x)}
             Tests(x) ==
               /\ Plain(x, p, {"id", "type", "summary", "content",
                               "encrypted_content", Passthrough})
               /\ require_optional_string(x, p, "encrypted_content")
               /\ \A c \in Parts(x) : c.ok
  <2>1. Fields(d) = Fields(e)
    BY KinReads
  <2>2. \A f \in Fields(d) : f \in Segment
    BY <1>c
  <2> HIDE DEF Fields
  <2>3. Parts(d) = Parts(e)
    BY <2>1, <2>2, <1>b
  <2> HIDE DEF Parts
  <2>4. Tests(d) = Tests(e)
    BY <2>3, KinTests
  <2> HIDE DEF Tests
  <2>5. \A x : collect_reasoning(x, p) =
                 Collected(Tests(x), UNION {c.rewrite : c \in Parts(x)}, {})
    BY DEF collect_reasoning, Tests, Parts, Fields
  <2> QED BY <2>3, <2>4, <2>5
<1>6. collect_known_structural_item(d, p) = collect_known_structural_item(e, p)
  <2> DEFINE Free(x) == {c \in Children(x, p) :
                           Last(c) \notin {"id", "type", "call_id", "status",
                                           Passthrough}}
             Blocks(x) == UNION {StringsBelow(x, q) : q \in Free(x)}
  <2>1. Free(d) = Free(e)
    BY KinReads
  <2> HIDE DEF Free
  <2>2. {StringsBelow(d, q) : q \in Free(d)} = {StringsBelow(e, q) : q \in Free(e)}
    BY <2>1, KinReads
  <2>3. Blocks(d) = Blocks(e)
    BY <2>2
  <2>4. validate_common_item_fields(d, p) = validate_common_item_fields(e, p)
    BY KinTests DEF validate_common_item_fields
  <2> HIDE DEF Blocks
  <2>5. \A x : collect_known_structural_item(x, p) =
                 Collected(validate_common_item_fields(x, p), {}, Blocks(x))
    BY DEF collect_known_structural_item, Blocks, Free
  <2> QED BY <2>3, <2>4, <2>5
<1>7. collect_compaction(d, p) = collect_compaction(e, p)
  BY KinReads, KinTests DEF collect_compaction
<1>8. collect_additional_tools(d, p) = collect_additional_tools(e, p)
  <2> DEFINE Tests(x) == /\ Plain(x, p, {"id", "type", "role", "tools"})
                         /\ require_string(x, p, "role")
  <2>1. Tests(d) = Tests(e)
    BY KinTests
  <2> HIDE DEF Tests
  <2>2. \A x : collect_additional_tools(x, p) =
                 Provided(Tests(x), collect_tool_array(x, Append(p, "tools")))
    BY DEF collect_additional_tools, Tests
  <2>3. collect_tool_array(d, Append(p, "tools")) =
          collect_tool_array(e, Append(p, "tools"))
    BY KinTools
  <2> QED BY <2>1, <2>2, <2>3, Zenon
<1>9. Kind(d, p) = Kind(e, p) /\ PartType(d, p) = PartType(e, p)
  BY KinReads
<1> QED
  BY <1>1, <1>2, <1>3, <1>4, <1>5, <1>6, <1>7, <1>8, <1>9 DEF collect_input_item

LEMMA KinControls ==
  ASSUME NEW d, NEW e, Document(d), Kin(d, e)
  PROVE  validate_top_level_controls(d) <=> validate_top_level_controls(e)
<1>1. Text(d, <<"tool_choice">>) = Text(e, <<"tool_choice">>)
  <2>1. ~Prose(<<"tool_choice">>)
    BY DEF Prose
  <2> QED BY <2>1, KinReads
<1>2. /\ Children(d, <<"include">>) = Children(e, <<"include">>)
      /\ \A entry \in Children(d, <<"include">>) : d[entry] = e[entry]
  <2> DEFINE top == <<"include">>
  <2>1. top \in Path /\ Len(top) = 1 /\ top[1] = "include"
    BY DEF Path, Segment
  <2> HIDE DEF top
  <2>2. ASSUME NEW entry \in Children(d, top)
        PROVE  entry \in DOMAIN d /\ Len(entry) = 2 /\ entry[1] = "include"
    <3>1. /\ entry \in DOMAIN d /\ Len(entry) = Len(top) + 1
          /\ \A i \in 1..Len(top) : entry[i] = top[i]
      BY <2>1, ChildIs
    <3> QED BY <2>1, <3>1
  <2> USE DEF top
  <2>3. \A entry \in Children(d, <<"include">>) : ~Prose(entry)
    BY <2>2 DEF Prose
  <2> QED BY <2>2, <2>3, KinReads DEF Kin
<1>3. validate_text_controls(d, <<"text">>) <=> validate_text_controls(e, <<"text">>)
  <2> DEFINE format == Append(<<"text">>, "format")
  <2>1. <<"text">> \in Path /\ "format" \in Segment
    BY DEF Path, Segment
  <2>2. PartType(d, format) = PartType(e, format)
    BY <2>1, AppendIs, KinReads
  <2> HIDE DEF format
  <2>3. \A x : validate_text_controls(x, <<"text">>) <=>
          /\ ensure_allowed_keys(x, <<"text">>, {"verbosity", "format"})
          /\ require_optional_string(x, <<"text">>, "verbosity")
          /\ \/ Kind(x, format) \in {"absent", "null"}
             \/ /\ Kind(x, format) = "object"
                /\ require_string(x, format, "type")
                /\ \/ /\ PartType(x, format) = "text"
                      /\ ensure_allowed_keys(x, format, {"type"})
                   \/ /\ PartType(x, format) = "json_schema"
                      /\ ensure_allowed_keys(x, format,
                                             {"type", "strict", "schema", "name"})
                      /\ require_bool(x, format, "strict")
                      /\ require_string(x, format, "name")
                      /\ "schema" \in Keys(x, format)
    BY Zenon DEF validate_text_controls, format
  <2> QED BY <2>2, <2>3, KinReads, KinTests
<1> QED BY <1>1, <1>2, <1>3, KinReads, KinTests DEF validate_top_level_controls

\* Requests that differ in their prose only are accepted alike, with the same
\* targets.
LEMMA KinParse ==
  ASSUME NEW d, NEW e, Document(d), Kin(d, e)
  PROVE  parse(d) = parse(e)
<1>1. collect_instructions(d) = collect_instructions(e)
  <2>1. Kind(d, <<"instructions">>) = Kind(e, <<"instructions">>)
    BY KinReads
  <2> QED BY ONLY <2>1, Zenon DEF collect_instructions
<1>2. collect_input(d) = collect_input(e)
  <2> DEFINE Items(x) == {collect_input_item(x, p) : p \in Children(x, <<"input">>)}
  <2>1. <<"input">> \in Path
    BY DEF Path, Segment
  <2>2. \A p \in Children(d, <<"input">>) : collect_input_item(d, p) =
                                            collect_input_item(e, p)
    BY <2>1, ChildIs, KinItem
  <2>3. Items(d) = Items(e)
    BY <2>2, KinReads
  <2> HIDE DEF Items
  <2>4. \A x : collect_input(x) =
          CASE Kind(x, <<"input">>) = "string" -> Collected(TRUE, {<<"input">>}, {})
            [] Kind(x, <<"input">>) = "array" ->
                 Collected(\A c \in Items(x) : c.ok, UNION {c.rewrite : c \in Items(x)},
                           UNION {c.block : c \in Items(x)})
            [] OTHER -> Collected(FALSE, {}, {})
    BY Zenon DEF collect_input, Items
  <2>5. Kind(d, <<"input">>) = Kind(e, <<"input">>)
    BY KinReads
  <2> QED BY ONLY <2>3, <2>4, <2>5, Zenon
<1>3. collect_tools(d) = collect_tools(e)
  <2>1. Kind(d, <<"tools">>) = Kind(e, <<"tools">>)
    BY KinReads
  <2>2. collect_tool_array(d, <<"tools">>) = collect_tool_array(e, <<"tools">>)
    BY KinTools
  <2> QED BY ONLY <2>1, <2>2, Zenon DEF collect_tools
<1>4. collect_client_metadata(d) = collect_client_metadata(e)
  <2> DEFINE Values(x) == Children(x, <<"client_metadata">>)
             Tests(x) == /\ Kind(x, <<"client_metadata">>) = "object"
                         /\ \A q \in Values(x) : Kind(x, q) = "string"
  <2>1. /\ Kind(d, <<"client_metadata">>) = Kind(e, <<"client_metadata">>)
        /\ Values(d) = Values(e)
    BY KinReads
  <2>2. Tests(d) = Tests(e)
    BY KinReads
  <2> HIDE DEF Values, Tests
  <2>3. \A x : collect_client_metadata(x) =
          CASE Kind(x, <<"client_metadata">>) = "absent" -> Collected(TRUE, {}, {})
            [] OTHER -> Collected(Tests(x), {}, Values(x))
    BY Zenon DEF collect_client_metadata, Values, Tests
  <2> QED BY ONLY <2>1, <2>2, <2>3, Zenon
<1>5. RequiredFields(d) <=> RequiredFields(e)
  BY KinReads, KinTests DEF RequiredFields
<1>6. validate_top_level_controls(d) <=> validate_top_level_controls(e)
  BY KinControls
<1>7. \A targs : collect_untracked_strings(d, targs) = collect_untracked_strings(e, targs)
  <2>1. {q \in DOMAIN d : d[q].kind = "object"} = {q \in DOMAIN e : e[q].kind = "object"}
    BY DEF Kin
  <2>2. UNION {Keys(d, p) : p \in {q \in DOMAIN d : d[q].kind = "object"}} =
          UNION {Keys(e, p) : p \in {q \in DOMAIN e : e[q].kind = "object"}}
    BY <2>1, KinReads
  <2>3. Strings(d) = Strings(e)
    BY KinReads
  <2> QED BY ONLY <2>2, <2>3 DEF collect_untracked_strings
<1> QED BY <1>1, <1>2, <1>3, <1>4, <1>5, <1>6, <1>7 DEF parse

-----------------------------------------------------------------------------
(* What is collected *)

\* The targets of the item at p: strings below it, to be rewritten only where
\* they are prose, and of one mode.
ItemTargets(d, p, c) ==
  /\ c.rewrite \subseteq Strings(d) /\ c.block \subseteq Strings(d)
  /\ \A q \in c.rewrite : Prose(q)
  /\ \A q \in c.rewrite \union c.block : q[1] = "input" /\ q[2] = p[2]
  /\ c.rewrite = {} \/ c.block = {}

\* The tests before a collector leave what it collects alone.
LEMMA ProvidedIs ==
  ASSUME NEW tests, NEW c, DOMAIN c = {"ok", "rewrite", "block"}
  PROVE  LET r == Provided(tests, c)
         IN  /\ r.rewrite = c.rewrite /\ r.block = c.block
             /\ r.ok => c.ok
BY DEF Provided

\* The fields of an item.
LEMMA FieldIs ==
  ASSUME NEW p \in Path, Len(p) = 2, p[1] = "input", NEW key \in Segment
  PROVE  LET f == Append(p, key)
         IN  f \in Path /\ Len(f) = 3 /\ f[1] = "input" /\ f[2] = p[2] /\ f[3] = key
<1> DEFINE f == Append(p, key)
<1>1. /\ f \in Path /\ Len(f) = Len(p) + 1 /\ f[Len(p) + 1] = key
      /\ \A i \in 1..Len(p) : f[i] = p[i]
  BY AppendIs
<1> HIDE DEF f
<1>2. f \in Path /\ Len(f) = 3 /\ f[1] = "input" /\ f[2] = p[2] /\ f[3] = key
  BY <1>1
<1> QED BY <1>2 DEF f

\* The texts of the parts of a field.
LEMMA PartsTargets ==
  ASSUME NEW d, Document(d), NEW p \in Path, Len(p) = 2, p[1] = "input",
         NEW key \in {"content", "output", "summary"}, NEW textTypes, NEW sealed,
         "encrypted_content" \notin textTypes
  PROVE  LET c == collect_content_array(d, Append(p, key), textTypes, sealed)
         IN  /\ DOMAIN c = {"ok", "rewrite", "block"}
             /\ c.block = {}
             /\ c.ok => ItemTargets(d, p, c)
<1> DEFINE f == Append(p, key)
           c == collect_content_array(d, f, textTypes, sealed)
           texts == {q \in Children(d, f) : PartType(d, q) \in textTypes}
<1>1. key \in Segment /\ "text" \in Segment
  BY DEF Segment
<1>2. f \in Path /\ Len(f) = 3 /\ f[1] = "input" /\ f[2] = p[2] /\ f[3] = key
  BY <1>1, FieldIs
<1> HIDE DEF f
<1>3. /\ DOMAIN c = {"ok", "rewrite", "block"} /\ c.block = {}
      /\ c.rewrite = {Append(part, "text") : part \in texts}
  BY DEF collect_content_array, Collected
<1>4. c.ok => \A part \in texts : require_string(d, part, "text")
  BY DEF collect_content_array, Collected, ensure_text_part
<1> HIDE DEF c
<1>5. ASSUME NEW part \in texts, require_string(d, part, "text")
      PROVE  LET q == Append(part, "text")
             IN  q \in Strings(d) /\ Prose(q) /\ q[1] = "input" /\ q[2] = p[2]
  <2> DEFINE q == Append(part, "text")
  <2>1. /\ part \in Path /\ Len(part) = Len(f) + 1
        /\ \A i \in 1..Len(f) : part[i] = f[i]
    BY <1>2, ChildIs
  <2>2. Len(part) = 4 /\ part[1] = "input" /\ part[2] = p[2] /\ part[3] = key
    BY <1>2, <2>1
  <2>3. /\ q \in Path /\ Len(q) = Len(part) + 1 /\ q[Len(part) + 1] = "text"
        /\ \A i \in 1..Len(part) : q[i] = part[i]
    BY <1>1, <2>1, AppendIs
  <2>4. q \in Strings(d)
    BY <1>5 DEF require_string, Kind, Strings
  <2> HIDE DEF q
  <2>5. /\ Len(q) = 5 /\ q[1] = "input" /\ q[2] = p[2] /\ q[3] = key
        /\ q[5] = "text"
    BY <2>2, <2>3
  <2>6. Prose(q)
    BY <2>5 DEF Prose
  <2> QED BY <2>4, <2>5, <2>6 DEF q
<1>6. c.ok => ItemTargets(d, p, c)
  BY <1>3, <1>4, <1>5 DEF ItemTargets
<1> QED BY <1>3, <1>6 DEF c, f

\* A string field of an item.
LEMMA StringTargets ==
  ASSUME NEW d, NEW p \in Path, Len(p) = 2, p[1] = "input",
         NEW key \in {"content", "output", "arguments", "input"},
         Kind(d, Append(p, key)) = "string", NEW ok
  PROVE  LET c == Collected(ok, {Append(p, key)}, {})
         IN  ItemTargets(d, p, c)
<1> DEFINE f == Append(p, key)
           c == Collected(ok, {f}, {})
<1>1. key \in Segment
  BY DEF Segment
<1>2. f \in Path /\ Len(f) = 3 /\ f[1] = "input" /\ f[2] = p[2] /\ f[3] = key
  BY <1>1, FieldIs
<1>3. f \in Strings(d)
  BY DEF Kind, Strings
<1> HIDE DEF f
<1>4. Prose(f)
  BY <1>2 DEF Prose
<1>5. c.rewrite = {f} /\ c.block = {}
  BY DEF Collected
<1> HIDE DEF c
<1>6. ItemTargets(d, p, c)
  BY <1>2, <1>3, <1>4, <1>5 DEF ItemTargets
<1> QED BY <1>6 DEF c, f

LEMMA ProseOrPartsTargets ==
  ASSUME NEW d, Document(d), NEW p \in Path, Len(p) = 2, p[1] = "input",
         NEW key \in {"content", "output"}, NEW textTypes, NEW sealed,
         "encrypted_content" \notin textTypes
  PROVE  LET c == ProseOrParts(d, Append(p, key), textTypes, sealed)
         IN  /\ DOMAIN c = {"ok", "rewrite", "block"}
             /\ c.ok => ItemTargets(d, p, c)
<1> DEFINE f == Append(p, key)
           c == ProseOrParts(d, f, textTypes, sealed)
<1>1. CASE Kind(d, f) = "string"
  <2>1. c = Collected(TRUE, {f}, {})
    BY <1>1 DEF ProseOrParts
  <2>2. ItemTargets(d, p, c)
    BY <1>1, <2>1, StringTargets
  <2>3. DOMAIN c = {"ok", "rewrite", "block"}
    BY <2>1 DEF Collected
  <2> QED BY <2>2, <2>3
<1>2. CASE Kind(d, f) # "string"
  <2>1. c = collect_content_array(d, f, textTypes, sealed)
    BY <1>2 DEF ProseOrParts
  <2> QED BY <2>1, PartsTargets
<1> QED BY <1>1, <1>2

\* The strings below a path start with it.
LEMMA BelowIs ==
  ASSUME NEW d, Document(d), NEW p \in Path, NEW q \in StringsBelow(d, p)
  PROVE  /\ q \in Strings(d) /\ q \in Path
         /\ Len(p) <= Len(q) /\ \A i \in 1..Len(p) : q[i] = p[i]
<1>1. q \in Strings(d) /\ IsPrefix(p, q)
  BY DEF StringsBelow
<1>2. q \in Path
  BY <1>1, DocumentPaths DEF Strings
<1> QED BY <1>1, <1>2, PrefixIs

\* A collection that only blocks.
LEMMA BlockTargets ==
  ASSUME NEW d, NEW p, NEW ok, NEW block \in SUBSET Strings(d),
         \A q \in block : q[1] = "input" /\ q[2] = p[2]
  PROVE  ItemTargets(d, p, Collected(ok, {}, block))
BY DEF ItemTargets, Collected

LEMMA MessageTargets ==
  ASSUME NEW d, Document(d), NEW p \in Path, Len(p) = 2, p[1] = "input"
  PROVE  /\ LET c == collect_message(d, p) IN c.ok => ItemTargets(d, p, c)
         /\ LET c == collect_agent_message(d, p) IN c.ok => ItemTargets(d, p, c)
         /\ \A more : LET c == collect_output_payload(d, p, more)
                      IN  c.ok => ItemTargets(d, p, c)
<1>0. ASSUME NEW tests, NEW c, DOMAIN c = {"ok", "rewrite", "block"},
             c.ok => ItemTargets(d, p, c), Provided(tests, c).ok
      PROVE  ItemTargets(d, p, Provided(tests, c))
  BY <1>0, ProvidedIs DEF ItemTargets
<1>1. LET c == collect_message(d, p) IN c.ok => ItemTargets(d, p, c)
  <2> DEFINE c == ProseOrParts(d, Append(p, "content"),
                               {"input_text", "output_text"}, FALSE)
  <2>1. DOMAIN c = {"ok", "rewrite", "block"} /\ (c.ok => ItemTargets(d, p, c))
    BY ProseOrPartsTargets
  <2> HIDE DEF c
  <2> QED BY <1>0, <2>1 DEF collect_message, c
<1>2. LET c == collect_agent_message(d, p) IN c.ok => ItemTargets(d, p, c)
  <2> DEFINE c == collect_content_array(d, Append(p, "content"), {"input_text"}, TRUE)
  <2>1. DOMAIN c = {"ok", "rewrite", "block"} /\ (c.ok => ItemTargets(d, p, c))
    <3>1. /\ "content" \in {"content", "output", "summary"}
          /\ "encrypted_content" \notin {"input_text"}
      OBVIOUS
    <3>2. \A key \in {"content", "output", "summary"} : \A textTypes, sealed :
            "encrypted_content" \notin textTypes =>
              LET a == collect_content_array(d, Append(p, key), textTypes, sealed)
              IN  DOMAIN a = {"ok", "rewrite", "block"} /\ (a.ok => ItemTargets(d, p, a))
      BY PartsTargets
    <3> QED BY <3>1, <3>2, Zenon
  <2> HIDE DEF c
  <2> QED BY <1>0, <2>1 DEF collect_agent_message, c
<1>3. ASSUME NEW more
      PROVE  LET c == collect_output_payload(d, p, more)
             IN  c.ok => ItemTargets(d, p, c)
  <2> DEFINE c == ProseOrParts(d, Append(p, "output"), {"input_text"}, TRUE)
  <2>1. DOMAIN c = {"ok", "rewrite", "block"} /\ (c.ok => ItemTargets(d, p, c))
    BY ProseOrPartsTargets
  <2> HIDE DEF c
  <2> QED BY <1>0, <2>1 DEF collect_output_payload, c
<1> QED BY <1>1, <1>2, <1>3

LEMMA FieldTargets ==
  ASSUME NEW d, Document(d), NEW p \in Path, Len(p) = 2, p[1] = "input"
  PROVE  /\ \A field \in {"arguments", "input"} : \A more :
              LET c == collect_string_field(d, p, field, more)
              IN  c.ok => ItemTargets(d, p, c)
         /\ LET c == collect_reasoning(d, p) IN c.ok => ItemTargets(d, p, c)
<1>1. ASSUME NEW field \in {"arguments", "input"}, NEW more,
             collect_string_field(d, p, field, more).ok
      PROVE  ItemTargets(d, p, collect_string_field(d, p, field, more))
  <2>1. require_string(d, p, field)
    BY <1>1 DEF collect_string_field, Collected
  <2>2. Kind(d, Append(p, field)) = "string"
    BY <2>1 DEF require_string
  <2> QED BY <2>2, StringTargets DEF collect_string_field
<1>2. ASSUME collect_reasoning(d, p).ok
      PROVE  ItemTargets(d, p, collect_reasoning(d, p))
  <2> DEFINE PartsOf(f) == collect_content_array(d, Append(p, f),
                           {"summary_text", "reasoning_text"}, FALSE)
             Fields == {f \in {"summary", "content"} :
                          Kind(d, Append(p, f)) \notin {"absent", "null"}}
             r == collect_reasoning(d, p)
  <2>1. /\ r.rewrite = UNION {PartsOf(f).rewrite : f \in Fields} /\ r.block = {}
        /\ \A f \in Fields : PartsOf(f).ok
    BY <1>2 DEF collect_reasoning, Collected
  <2>2. ASSUME NEW f \in Fields PROVE PartsOf(f).ok => ItemTargets(d, p, PartsOf(f))
    <3>1. /\ f \in {"content", "output", "summary"}
          /\ "encrypted_content" \notin {"summary_text", "reasoning_text"}
      OBVIOUS
    <3> QED BY <3>1, PartsTargets
  <2> HIDE DEF PartsOf, Fields, r
  <2>3. ItemTargets(d, p, r)
    BY <2>1, <2>2 DEF ItemTargets
  <2> QED BY <2>3 DEF r
<1> QED BY <1>1, <1>2

LEMMA StructuralTargets ==
  ASSUME NEW d, Document(d), NEW p \in Path, Len(p) = 2, p[1] = "input"
  PROVE  /\ LET c == collect_known_structural_item(d, p) IN ItemTargets(d, p, c)
         /\ LET c == collect_compaction(d, p) IN ItemTargets(d, p, c)
         /\ LET c == collect_additional_tools(d, p) IN c.ok => ItemTargets(d, p, c)
<1>1. ItemTargets(d, p, collect_known_structural_item(d, p))
  <2> DEFINE Free == {c \in Children(d, p) :
                        Last(c) \notin {"id", "type", "call_id", "status", Passthrough}}
             B == UNION {StringsBelow(d, q) : q \in Free}
  <2>1. ASSUME NEW q \in Free, NEW s \in StringsBelow(d, q)
        PROVE  s \in Strings(d) /\ s[1] = "input" /\ s[2] = p[2]
    <3>1. /\ q \in Path /\ Len(q) = Len(p) + 1
          /\ \A i \in 1..Len(p) : q[i] = p[i]
      BY ChildIs
    <3>2. Len(q) = 3 /\ q[1] = "input" /\ q[2] = p[2]
      BY <3>1
    <3>3. s \in Strings(d) /\ \A i \in 1..Len(q) : s[i] = q[i]
      BY <3>1, BelowIs
    <3> QED BY <3>2, <3>3
  <2>2. B \in SUBSET Strings(d) /\ \A s \in B : s[1] = "input" /\ s[2] = p[2]
    BY <2>1
  <2>3. collect_known_structural_item(d, p) =
          Collected(validate_common_item_fields(d, p), {}, B)
    BY DEF collect_known_structural_item
  <2> HIDE DEF B
  <2> QED BY <2>2, <2>3, BlockTargets
<1>2. ItemTargets(d, p, collect_compaction(d, p))
  BY BlockTargets DEF collect_compaction
<1>3. ASSUME collect_additional_tools(d, p).ok
      PROVE  ItemTargets(d, p, collect_additional_tools(d, p))
  <2> DEFINE tools == Append(p, "tools")
             c == collect_tool_array(d, tools)
             tests == /\ Plain(d, p, {"id", "type", "role", "tools"})
                      /\ require_string(d, p, "role")
  <2>1. /\ DOMAIN c = {"ok", "rewrite", "block"} /\ c.rewrite = {}
        /\ c.block \subseteq StringsBelow(d, tools)
    BY DEF collect_tool_array, Collected
  <2>2. tools \in Path /\ Len(tools) = 3 /\ tools[1] = "input" /\ tools[2] = p[2]
    <3>1. "tools" \in Segment
      BY DEF Segment
    <3> QED BY <3>1, FieldIs
  <2> HIDE DEF tools, c, tests
  <2>3. \A s \in c.block : s \in Strings(d) /\ s[1] = "input" /\ s[2] = p[2]
    BY <2>1, <2>2, BelowIs
  <2>4. ItemTargets(d, p, c)
    BY <2>1, <2>3 DEF ItemTargets
  <2>5. ItemTargets(d, p, Provided(tests, c))
    BY <2>1, <2>4, ProvidedIs DEF ItemTargets
  <2> QED BY <2>5 DEF collect_additional_tools, tests, c, tools
<1> QED BY <1>1, <1>2, <1>3

LEMMA InputItemTargets ==
  ASSUME NEW d, Document(d), NEW p \in Path, Len(p) = 2, p[1] = "input",
         collect_input_item(d, p).ok
  PROVE  ItemTargets(d, p, collect_input_item(d, p))
<1> DEFINE c == collect_input_item(d, p)
           no == Collected(FALSE, {}, {})
<1>1. \/ c = no
      \/ c = collect_message(d, p) \/ c = collect_agent_message(d, p)
      \/ c = collect_output_payload(d, p, {})
      \/ c = collect_output_payload(d, p, {"name"})
      \/ c = collect_string_field(d, p, "arguments", {})
      \/ c = collect_string_field(d, p, "input", {"status"})
      \/ c = collect_additional_tools(d, p) \/ c = collect_reasoning(d, p)
      \/ c = collect_known_structural_item(d, p) \/ c = collect_compaction(d, p)
  BY DEF collect_input_item
<1>2. c.ok
  OBVIOUS
<1>3. ~no.ok
  BY DEF Collected
<1> HIDE DEF c, no
<1>4. ItemTargets(d, p, c)
  BY <1>1, <1>2, <1>3, MessageTargets, FieldTargets, StructuralTargets
<1> QED BY <1>4 DEF c

-----------------------------------------------------------------------------
(* The targets of an accepted request *)

\* The strings collected for rewriting and for blocking.
Collectors(d) ==
  {collect_instructions(d), collect_input(d), collect_tools(d),
   collect_client_metadata(d)}
Rewrites(d) == UNION {c.rewrite : c \in Collectors(d)}
Blocks(d) == UNION {c.block : c \in Collectors(d)}

ObjectKeys(d) == UNION {Keys(d, p) : p \in {q \in DOMAIN d : d[q].kind = "object"}}

\* Prose to rewrite, strings to block, no string both, each collector with a
\* part of the document of its own.
Separate(d, c, field) ==
  /\ c.rewrite \subseteq Strings(d) /\ c.block \subseteq Strings(d)
  /\ \A q \in c.rewrite : Prose(q)
  /\ \A q \in c.rewrite \union c.block : q[1] = field
  /\ c.rewrite \intersect c.block = {}

LEMMA InputTargets ==
  ASSUME NEW d, Document(d), collect_input(d).ok
  PROVE  Separate(d, collect_input(d), "input")
<1> DEFINE c == collect_input(d)
           top == <<"input">>
           Item(p) == collect_input_item(d, p)
<1>1. top \in Path /\ Len(top) = 1 /\ top[1] = "input"
  BY DEF Path, Segment
<1>2. CASE Kind(d, top) = "string"
  <2>1. c = Collected(TRUE, {top}, {})
    BY <1>2, Zenon DEF collect_input
  <2>2. c.rewrite = {top} /\ c.block = {}
    BY <2>1 DEF Collected
  <2>3. top \in Strings(d) /\ Prose(top)
    BY <1>2 DEF Kind, Strings, Prose
  <2> HIDE DEF c, top
  <2> QED BY <1>1, <2>2, <2>3 DEF Separate, c
<1>3. CASE Kind(d, top) = "array"
  <2>1. c = Collected(\A i \in {Item(p) : p \in Children(d, top)} : i.ok,
                      UNION {i.rewrite : i \in {Item(p) : p \in Children(d, top)}},
                      UNION {i.block : i \in {Item(p) : p \in Children(d, top)}})
    <3>1. Kind(d, top) # "string"
      BY <1>3
    <3> QED BY <1>3, <3>1, Zenon DEF collect_input
  <2>2. /\ c.rewrite = UNION {Item(p).rewrite : p \in Children(d, top)}
        /\ c.block = UNION {Item(p).block : p \in Children(d, top)}
        /\ \A p \in Children(d, top) : Item(p).ok
    BY <2>1 DEF Collected
  <2> HIDE DEF c, top, Item
  <2>3. ASSUME NEW p \in Children(d, top)
        PROVE  p \in Path /\ Len(p) = 2 /\ p[1] = "input" /\ ItemTargets(d, p, Item(p))
    <3>1. /\ p \in Path /\ Len(p) = Len(top) + 1
          /\ \A i \in 1..Len(top) : p[i] = top[i]
      BY ONLY Document(d), <1>1, p \in Children(d, top), ChildIs
    <3>2. Len(p) = 2 /\ p[1] = "input"
      BY <1>1, <3>1
    <3> QED BY <2>2, <3>1, <3>2, InputItemTargets DEF Item
  <2>4. ASSUME NEW p \in Children(d, top), NEW r \in Children(d, top),
               NEW q \in Item(p).rewrite, q \in Item(r).block
        PROVE  FALSE
    <3>1. q[2] = p[2] /\ q[2] = r[2]
      BY <2>3, <2>4 DEF ItemTargets
    <3>2. p = r
      <4>1. /\ p \in Path /\ Len(p) = 2 /\ p[1] = "input"
            /\ r \in Path /\ Len(r) = 2 /\ r[1] = "input"
        BY <2>3
      <4>2. p[1] = r[1] /\ p[2] = r[2]
        BY <3>1, <4>1
      <4>3. 1..Len(p) = {1, 2}
        BY ONLY <4>1
      <4>4. \A i \in 1..Len(p) : p[i] = r[i]
        BY ONLY <4>2, <4>3
      <4> QED BY ONLY <4>1, <4>4, SamePath
    <3> QED BY <2>3, <2>4, <3>2 DEF ItemTargets
  <2>5. /\ c.rewrite \subseteq Strings(d) /\ c.block \subseteq Strings(d)
        /\ \A q \in c.rewrite : Prose(q)
        /\ \A q \in c.rewrite \union c.block : q[1] = "input"
    BY <2>2, <2>3 DEF ItemTargets
  <2>6. c.rewrite \intersect c.block = {}
    BY <2>2, <2>4
  <2> QED BY <2>5, <2>6 DEF Separate, c
<1>4. CASE Kind(d, top) \notin {"string", "array"}
  <2>1. c = Collected(FALSE, {}, {})
    BY <1>4 DEF collect_input
  <2> QED BY <2>1 DEF Collected
<1> QED BY <1>2, <1>3, <1>4

LEMMA OtherTargets ==
  ASSUME NEW d, Document(d)
  PROVE  /\ collect_instructions(d).ok =>
              Separate(d, collect_instructions(d), "instructions")
         /\ Separate(d, collect_tools(d), "tools")
         /\ collect_client_metadata(d).ok =>
              Separate(d, collect_client_metadata(d), "client_metadata")
         /\ collect_tools(d).rewrite = {} /\ collect_client_metadata(d).rewrite = {}
         /\ collect_instructions(d).block = {}
<1>1. /\ collect_instructions(d).block = {}
      /\ collect_instructions(d).ok =>
           Separate(d, collect_instructions(d), "instructions")
  <2> DEFINE c == collect_instructions(d)
             top == <<"instructions">>
  <2>1. top[1] = "instructions" /\ Prose(top)
    BY DEF Prose
  <2>2. CASE Kind(d, top) = "absent"
    <3>1. c = Collected(TRUE, {}, {})
      BY <2>2, Zenon DEF collect_instructions
    <3> QED BY <3>1 DEF Collected, Separate
  <2>3. CASE Kind(d, top) # "absent"
    <3>1. c = Collected(Kind(d, top) = "string", {top}, {})
      BY <2>3, Zenon DEF collect_instructions
    <3> HIDE DEF top, c
    <3>2. c.rewrite = {top} /\ c.block = {} /\ (c.ok => Kind(d, top) = "string")
      BY ONLY <3>1 DEF Collected
    <3>3. c.ok => top \in Strings(d)
      BY <3>2 DEF Kind, Strings
    <3>4. c.block = {} /\ (c.ok => Separate(d, c, "instructions"))
      BY <2>1, <3>2, <3>3 DEF Separate
    <3> QED BY <3>4 DEF c
  <2> QED BY <2>2, <2>3
<1>2. collect_tools(d).rewrite = {} /\ Separate(d, collect_tools(d), "tools")
  <2> DEFINE c == collect_tools(d)
             top == <<"tools">>
  <2>1. top \in Path /\ Len(top) = 1 /\ top[1] = "tools"
    BY DEF Path, Segment
  <2>2. CASE Kind(d, top) = "absent"
    <3>1. c = Collected(TRUE, {}, {})
      BY <2>2, Zenon DEF collect_tools
    <3> QED BY <3>1 DEF Collected, Separate
  <2>3. CASE Kind(d, top) # "absent"
    <3>1. c = collect_tool_array(d, top)
      BY <2>3, Zenon DEF collect_tools
    <3> HIDE DEF top
    <3>2. c.rewrite = {} /\ c.block \subseteq StringsBelow(d, top)
      BY <3>1 DEF Collected, collect_tool_array
    <3> HIDE DEF c
    <3>3. \A q \in c.block : q \in Strings(d) /\ q[1] = "tools"
      BY <2>1, <3>2, BelowIs
    <3>4. c.rewrite = {} /\ Separate(d, c, "tools")
      BY <3>2, <3>3 DEF Separate
    <3> QED BY <3>4 DEF c
  <2> QED BY <2>2, <2>3
<1>3. /\ collect_client_metadata(d).rewrite = {}
      /\ collect_client_metadata(d).ok =>
           Separate(d, collect_client_metadata(d), "client_metadata")
  <2> DEFINE c == collect_client_metadata(d)
             top == <<"client_metadata">>
  <2>1. top \in Path /\ Len(top) = 1 /\ top[1] = "client_metadata"
    BY DEF Path, Segment
  <2>2. CASE Kind(d, top) = "absent"
    <3>1. c = Collected(TRUE, {}, {})
      BY <2>2, Zenon DEF collect_client_metadata
    <3> QED BY <3>1 DEF Collected, Separate
  <2>3. CASE Kind(d, top) # "absent"
    <3>1. c = Collected(/\ Kind(d, top) = "object"
                        /\ \A q \in Children(d, top) : Kind(d, q) = "string",
                        {}, Children(d, top))
      BY <2>3, Zenon DEF collect_client_metadata
    <3> HIDE DEF top
    <3>2. /\ c.rewrite = {} /\ c.block = Children(d, top)
          /\ c.ok => \A q \in c.block : Kind(d, q) = "string"
      BY <3>1 DEF Collected
    <3> HIDE DEF c
    <3>3. \A q \in c.block : q \in DOMAIN d /\ q[1] = "client_metadata"
      BY <2>1, <3>2, ChildIs
    <3>4. c.ok => c.block \subseteq Strings(d)
      BY <3>2, <3>3 DEF Kind, Strings
    <3>5. c.rewrite = {} /\ (c.ok => Separate(d, c, "client_metadata"))
      BY <3>2, <3>3, <3>4 DEF Separate
    <3> QED BY <3>5 DEF c
  <2> QED BY <2>2, <2>3
<1> QED BY <1>1, <1>2, <1>3

\* What an accepted request collects: prose to rewrite, every other string and
\* every key to block.
LEMMA TargetsAre ==
  ASSUME NEW d, Document(d), parse(d).ok
  PROVE  /\ Rewrites(d) \subseteq Strings(d)
         /\ \A q \in Rewrites(d) : Prose(q)
         /\ parse(d).targets =
              {TextTarget(p, "rewrite") : p \in Rewrites(d)}
              \union {TextTarget(p, "block_only") : p \in Strings(d) \ Rewrites(d)}
              \union {structural_literal(key) : key \in ObjectKeys(d)}
<1> DEFINE C == Collectors(d)
           R == Rewrites(d)
           B == Blocks(d)
           early == UNION {{TextTarget(p, "rewrite") : p \in c.rewrite} \union
                           {TextTarget(p, "block_only") : p \in c.block} : c \in C}
<1>1. /\ \A c \in C : c.ok
      /\ parse(d).targets = early \union collect_untracked_strings(d, early)
  <2> DEFINE fine == /\ RequiredFields(d) /\ validate_top_level_controls(d)
                     /\ \A c \in C : c.ok
  <2>1. parse(d) = IF ~fine THEN [ok |-> FALSE, targets |-> {}]
                   ELSE [ok |-> TRUE,
                         targets |-> early \union collect_untracked_strings(d, early)]
    BY DEF parse, Collectors
  <2> HIDE DEF early
  <2>2. fine
    BY <2>1
  <2> QED BY <2>1, <2>2
<1>2. /\ Separate(d, collect_instructions(d), "instructions")
      /\ Separate(d, collect_input(d), "input")
      /\ Separate(d, collect_tools(d), "tools")
      /\ Separate(d, collect_client_metadata(d), "client_metadata")
      /\ collect_tools(d).rewrite = {} /\ collect_client_metadata(d).rewrite = {}
      /\ collect_instructions(d).block = {}
  BY <1>1, InputTargets, OtherTargets DEF Collectors
<1>3. /\ R = collect_instructions(d).rewrite \union collect_input(d).rewrite
      /\ B = collect_input(d).block \union collect_tools(d).block
               \union collect_client_metadata(d).block
  BY <1>2 DEF Rewrites, Blocks, Collectors
<1>4. /\ R \subseteq Strings(d) /\ B \subseteq Strings(d)
      /\ \A q \in R : Prose(q)
  BY <1>2, <1>3 DEF Separate
<1>5. R \intersect B = {}
  BY <1>2, <1>3 DEF Separate
<1>6. early = {TextTarget(p, "rewrite") : p \in R}
              \union {TextTarget(p, "block_only") : p \in B}
  BY DEF Rewrites, Blocks
<1> HIDE DEF C, early, R, B
<1>7. {t.path : t \in early} = R \union B
  <2>1. \A p, mode : TextTarget(p, mode).path = p
    BY DEF TextTarget
  <2>2. \A t \in early : t.path \in R \union B
    BY <1>6, <2>1
  <2>3. ASSUME NEW p \in R \union B PROVE \E t \in early : t.path = p
    <3>1. TextTarget(p, "rewrite") \in early \/ TextTarget(p, "block_only") \in early
      BY <1>6
    <3> QED BY <2>1, <3>1
  <2> QED BY <2>2, <2>3
<1>8. collect_untracked_strings(d, early) =
        {TextTarget(p, "block_only") : p \in Strings(d) \ (R \union B)}
        \union {structural_literal(key) : key \in ObjectKeys(d)}
  BY <1>7 DEF collect_untracked_strings, ObjectKeys
<1>9. {TextTarget(p, "block_only") : p \in B}
      \union {TextTarget(p, "block_only") : p \in Strings(d) \ (R \union B)} =
        {TextTarget(p, "block_only") : p \in Strings(d) \ R}
  BY <1>4, <1>5
<1>10. parse(d).targets =
         {TextTarget(p, "rewrite") : p \in R}
         \union {TextTarget(p, "block_only") : p \in Strings(d) \ R}
         \union {structural_literal(key) : key \in ObjectKeys(d)}
  BY <1>1, <1>6, <1>8, <1>9
<1> QED BY <1>4, <1>10 DEF R

\* A target of an accepted request, field by field.
LEMMA TargetIs ==
  ASSUME NEW d, Document(d), parse(d).ok, NEW t \in parse(d).targets
  PROVE  \/ /\ t.literal = NoLiteral /\ t.mode = "rewrite"
            /\ t.path \in Rewrites(d) /\ t = TextTarget(t.path, "rewrite")
         \/ /\ t.literal = NoLiteral /\ t.mode = "block_only"
            /\ t.path \in Strings(d) \ Rewrites(d)
            /\ t = TextTarget(t.path, "block_only")
         \/ \E key \in ObjectKeys(d) :
              t.literal = <<key>> /\ t.literal # NoLiteral /\ t.mode = "block_only"
<1>1. \/ \E p \in Rewrites(d) : t = TextTarget(p, "rewrite")
      \/ \E p \in Strings(d) \ Rewrites(d) : t = TextTarget(p, "block_only")
      \/ \E key \in ObjectKeys(d) : t = structural_literal(key)
  BY TargetsAre
<1>2. \A p, mode : LET u == TextTarget(p, mode)
                   IN  u.path = p /\ u.literal = NoLiteral /\ u.mode = mode
  BY DEF TextTarget
<1>3. \A key : LET u == structural_literal(key)
               IN  /\ u.literal = <<key>> /\ u.literal # NoLiteral
                   /\ u.mode = "block_only"
  BY DEF structural_literal, NoLiteral
<1> QED BY <1>1, <1>2, <1>3

\* Every string of an accepted request has one target, every target a string or
\* a key, and every key a target.
LEMMA OneTarget ==
  ASSUME NEW d, Document(d), parse(d).ok
  PROVE  /\ \A p \in Strings(d) :
              Cardinality({t \in parse(d).targets :
                             t.literal = NoLiteral /\ t.path = p}) = 1
         /\ \A t \in parse(d).targets : t.literal = NoLiteral => t.path \in Strings(d)
         /\ \A p \in DOMAIN d : d[p].kind = "object" =>
              \A key \in Keys(d, p) : structural_literal(key) \in parse(d).targets
<1>1. ASSUME NEW p \in Strings(d)
      PROVE  Cardinality({t \in parse(d).targets :
                            t.literal = NoLiteral /\ t.path = p}) = 1
  <2> DEFINE mode == IF p \in Rewrites(d) THEN "rewrite" ELSE "block_only"
             only == TextTarget(p, mode)
             T == {t \in parse(d).targets : t.literal = NoLiteral /\ t.path = p}
  <2>1. only \in T
    <3>1. only \in parse(d).targets
      BY TargetsAre
    <3> QED BY <3>1 DEF TextTarget
  <2>2. \A t \in T : t = only
    BY TargetIs
  <2>3. T = {only}
    BY <2>1, <2>2
  <2> QED BY <2>3, FS_Singleton
<1>2. \A t \in parse(d).targets : t.literal = NoLiteral => t.path \in Strings(d)
  BY TargetIs, TargetsAre
<1>3. ASSUME NEW p \in DOMAIN d, d[p].kind = "object", NEW key \in Keys(d, p)
      PROVE  structural_literal(key) \in parse(d).targets
  <2>1. key \in ObjectKeys(d)
    BY <1>3 DEF ObjectKeys
  <2> QED BY <2>1, TargetsAre
<1> QED BY <1>1, <1>2, <1>3

-----------------------------------------------------------------------------
(* The life of a request *)

\* Until rewriting the value is the body; then it differs in prose only, has the
\* targets parse found, and no target that only blocks is sensitive.
PInv ==
  /\ phase \in Phases
  /\ Document(body) /\ Document(value) /\ Kin(value, body)
  /\ phase \notin {"rewriting", "sent"} => value = body
  /\ Inspected => parse(body).ok /\ targets = parse(body).targets
  /\ phase \in {"rewriting", "sent"} =>
       \A t \in targets : t.mode = "block_only" => text(t) \notin Sensitive
  /\ phase = "sent" => \A t \in targets : text(t) \notin Sensitive

LEMMA KinItself ==
  ASSUME NEW d PROVE Kin(d, d)
BY DEF Kin

\* What the client composes is a document.
LEMMA DraftIsDocument ==
  ASSUME Document(body)
  PROVE  /\ \A p \in Slots, n \in EditNodes :
              Document([q \in Without(p) \union {p} |-> IF q = p THEN n ELSE body[q]])
         /\ \A p : Document([q \in Without(p) |-> body[q]])
<1>1. \A p : Without(p) \subseteq DOMAIN body /\ IsFiniteSet(Without(p))
  BY FS_Subset DEF Without, Document
<1>2. \A p : Document([q \in Without(p) |-> body[q]])
  BY <1>1 DEF Document
<1>3. Slots \subseteq Seq(Segments)
  <2>1. DOMAIN body \subseteq Seq(Segments)
    BY DEF Document
  <2>2. ASSUME NEW p \in DOMAIN body, NEW key \in Segments
        PROVE  Append(p, key) \in Seq(Segments)
    BY <2>1, AppendProperties
  <2>3. EditKeys \subseteq Segments
    BY PayloadAssumption DEF Segments
  <2>4. ASSUME NEW p \in DOMAIN body, Cardinality(Children(body, p)) < Len(Index)
        PROVE  Index[Cardinality(Children(body, p)) + 1] \in Segments
    <3> DEFINE n == Cardinality(Children(body, p))
    <3>1. n \in Nat
      <4>1. IsFiniteSet(Children(body, p))
        BY FS_Subset DEF Children, Document
      <4> QED BY <4>1, FS_CardinalityType
    <3>2. Len(Index) = 5 /\ \A i \in 1..5 : i \in DOMAIN Index
      BY DEF Index
    <3> HIDE DEF n
    <3>3. n < Len(Index)
      BY <2>4 DEF n
    <3>4. n + 1 \in DOMAIN Index
      BY <3>1, <3>2, <3>3
    <3>5. Index[n + 1] \in Segments
      BY <3>4 DEF Segments, Range
    <3> QED BY <3>5 DEF n
  <2> DEFINE Keyed == {Append(p, key) : p \in {q \in DOMAIN body :
                                                body[q].kind = "object"},
                                       key \in EditKeys}
             Indexed == {Append(p, Index[Cardinality(Children(body, p)) + 1]) :
                           p \in {q \in DOMAIN body :
                                    /\ body[q].kind = "array"
                                    /\ Cardinality(Children(body, q)) < Len(Index)}}
  <2>5. Keyed \subseteq Seq(Segments)
    BY <2>2, <2>3
  <2>6. Indexed \subseteq Seq(Segments)
    BY <2>2, <2>4
  <2>7. Slots = DOMAIN body \union Keyed \union Indexed
    BY DEF Slots
  <2> HIDE DEF Keyed, Indexed
  <2> QED BY <2>1, <2>5, <2>6, <2>7
<1>4. ASSUME NEW p \in Slots, NEW n \in EditNodes
      PROVE  Document([q \in Without(p) \union {p} |-> IF q = p THEN n ELSE body[q]])
  <2> DEFINE D == Without(p) \union {p}
             e == [q \in D |-> IF q = p THEN n ELSE body[q]]
  <2>1. DOMAIN e = D
    OBVIOUS
  <2>2. IsFiniteSet(D)
    BY <1>1, FS_AddElement
  <2>3. D \subseteq Seq(Segments)
    BY <1>1, <1>3 DEF Document
  <2>4. n \in Nodes
    BY PayloadAssumption
  <2>5. \A q \in Without(p) : body[q] \in Nodes
    BY <1>1 DEF Document
  <2>6. e \in [D -> Nodes]
    BY <2>4, <2>5
  <2> HIDE DEF e, D
  <2>7. Document(e)
    BY <2>1, <2>2, <2>3, <2>6 DEF Document
  <2> QED BY <2>7 DEF e, D
<1> QED BY <1>2, <1>4

LEMMA InitPInv == PayloadInit => PInv
<1> SUFFICES ASSUME PayloadInit PROVE PInv
  OBVIOUS
<1>1. Document(body) /\ value = body /\ phase = "draft"
  BY PayloadAssumption DEF PayloadInit
<1> QED BY <1>1, KinItself DEF PInv, Phases, Inspected

\* Drafting: the value follows the body.
LEMMA ComposeStep ==
  ASSUME PInv, NEW d, Document(d), Compose(d)
  PROVE  PInv'
<1>1. body' = d /\ value' = d /\ phase = "draft" /\ phase' = "draft"
  BY DEF Compose
<1> QED BY <1>1, KinItself DEF PInv, Phases, Inspected

\* Rewriting: one prose string of the value gets another text.
LEMMA ReplaceStep ==
  ASSUME PInv, ReplaceText
  PROVE  PInv'
<1>1. PICK t \in targets : /\ text(t) \in Sensitive /\ t.literal = NoLiteral
                           /\ value' = replace_text(t)
  BY DEF ReplaceText
<1>2. /\ phase = "rewriting" /\ phase' = "rewriting" /\ body' = body
      /\ targets' = targets
  BY DEF ReplaceText
<1>3. /\ Document(body) /\ Document(value) /\ Kin(value, body)
      /\ parse(body).ok /\ targets = parse(body).targets
      /\ \A u \in targets : u.mode = "block_only" => text(u) \notin Sensitive
  BY <1>2 DEF PInv, Inspected
<1>4. t.path \in Rewrites(body) /\ t.path \in Strings(body) /\ Prose(t.path)
  BY <1>1, <1>3, TargetIs, TargetsAre
<1>5. Strings(body) = Strings(value)
  BY <1>3, KinReads
<1>6. t.path \in DOMAIN value /\ value[t.path].kind = "string"
  BY <1>4, <1>5 DEF Strings
<1>7. /\ DOMAIN value' = DOMAIN value
      /\ \A p \in DOMAIN value : p # t.path => value'[p] = value[p]
      /\ value'[t.path] = Str(Replacement)
  BY <1>1, <1>3, <1>6 DEF replace_text, Document
<1>8. Str(Replacement) \in Nodes /\ Str(Replacement).kind = "string"
  BY PayloadAssumption DEF Str, Node, Nodes
<1>9. Document(value')
  <2>1. value' \in [DOMAIN value -> Nodes]
    BY <1>1, <1>3, <1>8 DEF replace_text, Document
  <2> QED BY <1>3, <1>7, <2>1 DEF Document
<1>10. Kin(value', body)
  <2>1. body[t.path].kind = "string"
    BY <1>4 DEF Strings
  <2> QED BY <1>3, <1>4, <1>7, <1>8, <2>1 DEF Kin
<1>11. ASSUME NEW u \in targets, u.mode = "block_only"
       PROVE  text(u)' = text(u)
  <2>1. \/ u.literal # NoLiteral
        \/ u.literal = NoLiteral /\ u.path # t.path
    BY <1>3, <1>4, <1>11, TargetIs
  <2>2. u.path # t.path => Text(value', u.path) = Text(value, u.path)
    BY <1>7 DEF Text, Kind
  <2> QED BY <2>1, <2>2 DEF text
<1>12. \A u \in targets : u.mode = "block_only" => text(u)' \notin Sensitive
  BY <1>3, <1>11
<1> QED BY <1>2, <1>3, <1>9, <1>10, <1>12 DEF PInv, Phases, Inspected

LEMMA NextPInv == PInv /\ [PayloadNext]_payloadVars => PInv'
<1> SUFFICES ASSUME PInv, [PayloadNext]_payloadVars PROVE PInv'
  OBVIOUS
<1>1. CASE Put
  <2>1. PICK p \in Slots, n \in EditNodes :
          Compose([q \in Without(p) \union {p} |-> IF q = p THEN n ELSE body[q]])
    BY <1>1 DEF Put
  <2>2. Document([q \in Without(p) \union {p} |-> IF q = p THEN n ELSE body[q]])
    BY DraftIsDocument DEF PInv
  <2> QED BY <2>1, <2>2, ComposeStep
<1>2. CASE Delete
  <2>1. PICK p \in DOMAIN body \ {<<>>} : Compose([q \in Without(p) |-> body[q]])
    BY <1>2 DEF Delete
  <2>2. Document([q \in Without(p) |-> body[q]])
    BY DraftIsDocument DEF PInv
  <2> QED BY <2>1, <2>2, ComposeStep
<1>3. CASE RepeatKey
  <2>1. Compose(body) /\ Document(body)
    BY <1>3 DEF RepeatKey, PInv
  <2> QED BY <2>1, ComposeStep
<1>4. CASE Parse
  <2>1. /\ phase = "draft" /\ body' = body /\ value' = value
        /\ phase' \in {"parsed", "rejected"}
        /\ phase' = "parsed" => parse(body).ok /\ targets' = parse(body).targets
    BY <1>4 DEF Parse
  <2>2. value = body
    BY <2>1 DEF PInv
  <2> QED BY <2>1, <2>2 DEF PInv, Phases, Inspected
<1>5. CASE Inspect
  <2>1. /\ phase = "parsed" /\ body' = body /\ value' = value /\ targets' = targets
        /\ phase' \in {"blocked", "rewriting"}
        /\ phase' = "rewriting" =>
             \A t \in targets : t.mode = "block_only" => text(t) \notin Sensitive
    BY <1>5 DEF Inspect
  <2>2. \A t : text(t)' = text(t)
    BY <2>1 DEF text
  <2> QED BY <2>1, <2>2 DEF PInv, Phases, Inspected
<1>6. CASE ReplaceText
  BY <1>6, ReplaceStep
<1>7. CASE Serialize
  <2>1. /\ phase = "rewriting" /\ body' = body /\ value' = value /\ targets' = targets
        /\ phase' = "sent" /\ \A t \in targets : text(t) \notin Sensitive
    BY <1>7 DEF Serialize
  <2>2. \A t : text(t)' = text(t)
    BY <2>1 DEF text
  <2> QED BY <2>1, <2>2 DEF PInv, Phases, Inspected
<1>8. CASE UNCHANGED payloadVars
  <2>1. \A t : text(t)' = text(t)
    BY <1>8 DEF text, payloadVars
  <2> QED BY <1>8, <2>1 DEF PInv, payloadVars, Inspected
<1> QED BY <1>1, <1>2, <1>3, <1>4, <1>5, <1>6, <1>7, <1>8 DEF PayloadNext

\* PInv is an invariant: from the draft to the forwarded value, whatever the
\* client composes in however many edits, the value differs from the body in the
\* text of prose strings only and carries exactly the targets parse collected
\* (ValidatedRequest::parse, text, replace_text and PrivacyEngine::protect).
THEOREM PayloadInvariant == PayloadSpec => []PInv
BY InitPInv, NextPInv, PTL DEF PayloadSpec

\* What PInv says of an inspected value: parse finds in it what it found in the
\* body.
LEMMA InspectedParse ==
  ASSUME PInv, Inspected
  PROVE  /\ Document(value)
         /\ parse(value) = parse(body)
         /\ parse(value).ok /\ parse(value).targets = targets
<1>1. parse(value) = parse(body)
  BY KinParse DEF PInv
<1> QED BY <1>1 DEF PInv

\* From parse to serialization every string of an accepted request has exactly
\* one target, every target names a string and every object key is a literal
\* target, for every document the client can compose.
THEOREM EveryStringOneTargetHolds == PayloadSpec => []EveryStringOneTarget
<1>1. PInv => EveryStringOneTarget
  <2> SUFFICES ASSUME PInv, Inspected PROVE EveryStringOneTarget
    BY DEF EveryStringOneTarget
  <2>1. Document(value) /\ parse(value).ok /\ parse(value).targets = targets
    BY InspectedParse
  <2> QED BY <2>1, OneTarget DEF EveryStringOneTarget
<1> QED BY <1>1, PayloadInvariant, PTL

\* A sensitive text is never forwarded, whichever field or object key of
\* whatever document the client put it in.
THEOREM NothingSensitiveSentHolds == PayloadSpec => []NothingSensitiveSent
<1>1. PInv => NothingSensitiveSent
  <2> SUFFICES ASSUME PInv, phase = "sent" PROVE NothingSensitiveSent
    BY DEF NothingSensitiveSent
  <2>1. /\ Document(value) /\ parse(value).ok /\ parse(value).targets = targets
        /\ \A t \in targets : text(t) \notin Sensitive
    BY InspectedParse DEF PInv, Inspected
  <2>2. ASSUME NEW p \in DOMAIN value PROVE Text(value, p) \notin Sensitive
    <3>1. CASE p \in Strings(value)
      <4>1. PICK t \in targets : t.literal = NoLiteral /\ t.path = p
        <5> DEFINE T == {t \in targets : t.literal = NoLiteral /\ t.path = p}
        <5>1. Cardinality(T) = 1
          BY <2>1, <3>1, OneTarget
        <5>2. T # {}
          BY <5>1, FS_EmptySet
        <5> QED BY <5>2
      <4>2. text(t) = Text(value, p)
        BY <4>1 DEF text
      <4> QED BY <2>1, <4>2
    <3>2. CASE p \notin Strings(value)
      <4>1. Text(value, p) = ""
        BY <3>2 DEF Text, Kind, Strings
      <4> QED BY <4>1, PayloadAssumption
    <3> QED BY <3>1, <3>2
  <2>3. ASSUME NEW p \in DOMAIN value, value[p].kind = "object",
               NEW key \in Keys(value, p)
        PROVE  key \notin Sensitive
    <3>1. structural_literal(key) \in targets
      BY <2>1, <2>3, OneTarget
    <3>2. text(structural_literal(key)) = key
      BY DEF text, structural_literal, NoLiteral
    <3> QED BY <2>1, <3>1, <3>2
  <2> QED BY <2>2, <2>3 DEF NothingSensitiveSent
<1> QED BY <1>1, PayloadInvariant, PTL

\* Rewriting changes prose only, and what is sent is accepted by parse with the
\* targets that were inspected.
THEOREM RewriteKeepsShapeHolds == PayloadSpec => []RewriteKeepsShape
<1>1. PInv => RewriteKeepsShape
  <2> SUFFICES ASSUME PInv PROVE RewriteKeepsShape
    OBVIOUS
  <2>1. OnlyProseRewritten
    BY DEF PInv, Kin, OnlyProseRewritten
  <2>2. ASSUME phase = "sent" PROVE parse(value) = [ok |-> TRUE, targets |-> targets]
    <3>1. parse(value).ok /\ parse(value).targets = targets
      BY <2>2, InspectedParse DEF Inspected
    <3>2. \/ parse(value) = [ok |-> FALSE, targets |-> {}]
          \/ parse(value) = [ok |-> TRUE, targets |-> parse(value).targets]
      BY DEF parse
    <3> QED BY <3>1, <3>2
  <2> QED BY <2>1, <2>2 DEF RewriteKeepsShape
<1> QED BY <1>1, PayloadInvariant, PTL

-----------------------------------------------------------------------------
(* The event stream *)

\* Every nonempty set of naturals has a least element.
LEMMA LeastNatural ==
  ASSUME NEW T \in SUBSET Nat, T # {}
  PROVE  \E n \in T : \A m \in T : n <= m
<1> DEFINE R == {ss \in Nat \X Nat : ss[1] < ss[2]}
<1>1. IsWellFoundedOn(R, Nat)
  BY NatLessThanWellFounded DEF OpToRel
<1>2. PICK n \in T : \A m \in T : <<m, n>> \notin R
  <2> HIDE DEF R
  <2> QED BY <1>1, WFMin DEF R
<1>3. ASSUME NEW m \in T PROVE n <= m
  <2>1. <<m, n>> \notin R BY <1>2
  <2>2. <<m, n>> \in Nat \X Nat /\ <<m, n>>[1] = m /\ <<m, n>>[2] = n
    OBVIOUS
  <2> QED BY <2>1, <2>2
<1> QED BY <1>3

ByteSeq == Seq(Byte)

\* A part of a sequence, element by element.
LEMMA SliceIs ==
  ASSUME NEW A, NEW s \in Seq(A), NEW m \in 1..Len(s) + 1, NEW n \in m - 1..Len(s)
  PROVE  /\ SubSeq(s, m, n) \in Seq(A)
         /\ Len(SubSeq(s, m, n)) = n - m + 1
         /\ \A i \in 1..n - m + 1 : SubSeq(s, m, n)[i] = s[m + i - 1]
<1>1. m \in Nat /\ n \in Nat /\ Len(s) \in Nat
  OBVIOUS
<1>2. Len(SubSeq(s, m, n)) = n - m + 1
  BY <1>1
<1>3. \A i \in 1..n - m + 1 : SubSeq(s, m, n)[i] = s[m + i - 1]
  BY <1>1
<1>4. SubSeq(s, m, n) \in Seq(A)
  BY <1>1
<1> QED BY <1>2, <1>3, <1>4

\* Sequences of the same elements are the same.
LEMMA SameSeq ==
  ASSUME NEW A, NEW B, NEW u \in Seq(A), NEW v \in Seq(B), Len(u) = Len(v),
         \A i \in 1..Len(u) : u[i] = v[i]
  PROVE  u = v
OBVIOUS

\* Two cuts of the front of a sequence.
LEMMA SuffixTail ==
  ASSUME NEW A, NEW s \in Seq(A), NEW f \in 1..Len(s) + 1, NEW e \in 0..Len(s) - f + 1
  PROVE  SubSeq(SubSeq(s, f, Len(s)), e + 1, Len(SubSeq(s, f, Len(s))))
           = SubSeq(s, f + e, Len(s))
<1>0. Len(s) \in Nat /\ f \in Nat /\ e \in Nat /\ f >= 1 /\ e <= Len(s) - f + 1
  OBVIOUS
<1> DEFINE b == SubSeq(s, f, Len(s))
           v == SubSeq(b, e + 1, Len(b))
           w == SubSeq(s, f + e, Len(s))
           n == Len(s) - f + 1 - e
<1>1. /\ b \in Seq(A) /\ Len(b) = Len(s) - f + 1
      /\ \A i \in 1..Len(s) - f + 1 : b[i] = s[f + i - 1]
  BY <1>0, SliceIs
<1> HIDE DEF b
<1>2. n \in Nat /\ e + 1 \in 1..Len(b) + 1 /\ Len(b) \in (e + 1) - 1..Len(b)
  BY <1>0, <1>1
<1>3. f + e \in 1..Len(s) + 1 /\ Len(s) \in (f + e) - 1..Len(s)
  BY <1>0
<1>4. Len(b) - (e + 1) + 1 = n /\ Len(s) - (f + e) + 1 = n
  BY <1>0, <1>1
<1>5. v \in Seq(A) /\ Len(v) = n /\ \A i \in 1..n : v[i] = b[e + 1 + i - 1]
  BY <1>1, <1>2, <1>4, SliceIs
<1>6. w \in Seq(A) /\ Len(w) = n /\ \A i \in 1..n : w[i] = s[f + e + i - 1]
  BY <1>3, <1>4, SliceIs
<1> HIDE DEF v, w
<1>7. ASSUME NEW i \in 1..n PROVE v[i] = w[i]
  <2>1. /\ e + 1 + i - 1 \in 1..Len(s) - f + 1
        /\ f + (e + 1 + i - 1) - 1 = f + e + i - 1
    BY <1>0, <1>2
  <2> QED BY <1>1, <1>5, <1>6, <2>1
<1>8. v = w
  BY <1>5, <1>6, <1>7, SameSeq
<1> QED BY <1>8 DEF v, w, b

\* Two sequences one after the other.
LEMMA ConcatIs ==
  ASSUME NEW A, NEW u \in Seq(A), NEW v \in Seq(A)
  PROVE  /\ u \o v \in Seq(A) /\ Len(u \o v) = Len(u) + Len(v)
         /\ \A q \in 1..Len(u) : (u \o v)[q] = u[q]
         /\ \A q \in 1..Len(v) : (u \o v)[Len(u) + q] = v[q]
<1>1. Len(u) \in Nat /\ Len(v) \in Nat
  OBVIOUS
<1>2. u \o v \in Seq(A) /\ Len(u \o v) = Len(u) + Len(v)
  BY <1>1
<1>3. \A q \in 1..Len(u) : (u \o v)[q] = u[q]
  BY <1>1
<1>4. \A q \in 1..Len(v) : (u \o v)[Len(u) + q] = v[q]
  BY <1>1
<1> QED BY <1>2, <1>3, <1>4

\* Something added to what is left of a sequence.
LEMMA SuffixConcat ==
  ASSUME NEW A, NEW s \in Seq(A), NEW t \in Seq(A), NEW f \in 1..Len(s) + 1
  PROVE  SubSeq(s, f, Len(s)) \o t = SubSeq(s \o t, f, Len(s \o t))
<1>0. Len(s) \in Nat /\ Len(t) \in Nat /\ f \in Nat /\ f >= 1 /\ f <= Len(s) + 1
  OBVIOUS
<1> DEFINE u == s \o t
           b == SubSeq(s, f, Len(s))
           v == b \o t
           w == SubSeq(u, f, Len(u))
           k == Len(s) - f + 1
           n == k + Len(t)
<1>1. /\ u \in Seq(A) /\ Len(u) = Len(s) + Len(t)
      /\ \A i \in 1..Len(s) : u[i] = s[i]
      /\ \A i \in 1..Len(t) : u[Len(s) + i] = t[i]
  BY <1>0
<1>2. /\ b \in Seq(A) /\ Len(b) = k
      /\ \A i \in 1..k : b[i] = s[f + i - 1]
  BY <1>0, SliceIs
<1> HIDE DEF u, b
<1>3. k \in Nat /\ n \in Nat /\ Len(u) - f + 1 = n /\ f \in 1..Len(u) + 1
      /\ Len(u) \in f - 1..Len(u)
  BY <1>0, <1>1
<1>4. w \in Seq(A) /\ Len(w) = n /\ \A i \in 1..n : w[i] = u[f + i - 1]
  BY <1>1, <1>3, SliceIs
<1>5. /\ v \in Seq(A) /\ Len(v) = n
      /\ \A i \in 1..k : v[i] = b[i]
      /\ \A i \in 1..Len(t) : v[k + i] = t[i]
  <2>1. b \in Seq(A) /\ Len(b) = k
    BY <1>2
  <2>t. b \in Seq(A) /\ t \in Seq(A)
    BY <1>2
  <2>2. /\ v \in Seq(A) /\ Len(v) = Len(b) + Len(t)
        /\ \A i \in 1..Len(b) : v[i] = b[i]
        /\ \A i \in 1..Len(t) : v[Len(b) + i] = t[i]
    BY ONLY <2>t, ConcatIs
  <2> HIDE DEF k, v
  <2> QED BY <2>1, <2>2
<1> HIDE DEF v, w
<1>6. ASSUME NEW i \in 1..n PROVE v[i] = w[i]
  <2>1. CASE i <= k
    <3>1. i \in 1..k /\ f + i - 1 \in 1..Len(s)
      BY <1>0, <1>3, <2>1
    <3> QED BY <1>1, <1>2, <1>4, <1>5, <3>1
  <2>2. CASE i > k
    <3>1. i - k \in 1..Len(t) /\ k + (i - k) = i /\ Len(s) + (i - k) = f + i - 1
      BY <1>0, <1>3, <2>2
    <3>2. v[i] = t[i - k] /\ u[f + i - 1] = t[i - k]
      <4> HIDE DEF k
      <4> QED BY <1>1, <1>5, <3>1
    <3> QED BY <1>4, <3>2
  <2> QED BY <1>3, <2>1, <2>2
<1>7. v = w
  BY <1>4, <1>5, <1>6, SameSeq
<1> QED BY <1>7 DEF u, b, v, w

\* The two forms of a blank line.
LEMMA Patterns ==
  /\ LfLf \in ByteSeq /\ Len(LfLf) = 2 /\ LfLf[1] = "LF" /\ LfLf[2] = "LF"
  /\ CrLfCrLf \in ByteSeq /\ Len(CrLfCrLf) = 4
  /\ CrLfCrLf[1] = "CR" /\ CrLfCrLf[2] = "LF"
  /\ CrLfCrLf[3] = "CR" /\ CrLfCrLf[4] = "LF"
BY DEF LfLf, CrLfCrLf, ByteSeq, Byte

\* A part of a text is one of them if its bytes are.
LEMMA PatternAt ==
  ASSUME NEW s \in ByteSeq, NEW i \in 1..Len(s)
  PROVE  /\ i + 1 <= Len(s) =>
              (SubSeq(s, i, i + 1) = LfLf <=> s[i] = "LF" /\ s[i + 1] = "LF")
         /\ i + 3 <= Len(s) =>
              (SubSeq(s, i, i + 3) = CrLfCrLf <=>
                 /\ s[i] = "CR" /\ s[i + 1] = "LF"
                 /\ s[i + 2] = "CR" /\ s[i + 3] = "LF")
<1>0. Len(s) \in Nat
  BY DEF ByteSeq
<1>1. ASSUME i + 1 <= Len(s)
      PROVE  SubSeq(s, i, i + 1) = LfLf <=> s[i] = "LF" /\ s[i + 1] = "LF"
  <2> DEFINE t == SubSeq(s, i, i + 1)
  <2>1. t \in ByteSeq /\ Len(t) = 2 /\ t[1] = s[i] /\ t[2] = s[i + 1]
    <3>1. t \in ByteSeq /\ Len(t) = (i + 1) - i + 1
          /\ \A k \in 1..(i + 1) - i + 1 : t[k] = s[i + k - 1]
      BY <1>0, <1>1, SliceIs DEF ByteSeq
    <3> HIDE DEF t
    <3> QED BY <3>1
  <2> HIDE DEF t
  <2>2. ASSUME t[1] = LfLf[1] /\ t[2] = LfLf[2] PROVE t = LfLf
    <3>1. t \in Seq(Byte) /\ LfLf \in Seq(Byte) /\ Len(t) = Len(LfLf) /\ Len(t) = 2
      BY <2>1, Patterns DEF ByteSeq
    <3>2. \A k \in 1..Len(t) : t[k] = LfLf[k]
      BY ONLY <2>2, <3>1
    <3> QED BY ONLY <3>1, <3>2, SameSeq
  <2> QED BY <2>1, <2>2, Patterns DEF t
<1>2. ASSUME i + 3 <= Len(s)
      PROVE  SubSeq(s, i, i + 3) = CrLfCrLf <=>
               /\ s[i] = "CR" /\ s[i + 1] = "LF"
               /\ s[i + 2] = "CR" /\ s[i + 3] = "LF"
  <2> DEFINE t == SubSeq(s, i, i + 3)
  <2>1. /\ t \in ByteSeq /\ Len(t) = 4
        /\ t[1] = s[i] /\ t[2] = s[i + 1] /\ t[3] = s[i + 2] /\ t[4] = s[i + 3]
    <3>1. t \in ByteSeq /\ Len(t) = (i + 3) - i + 1
          /\ \A k \in 1..(i + 3) - i + 1 : t[k] = s[i + k - 1]
      BY <1>0, <1>2, SliceIs DEF ByteSeq
    <3> HIDE DEF t
    <3> QED BY <3>1
  <2> HIDE DEF t
  <2>2. (\A k \in 1..4 : t[k] = CrLfCrLf[k]) => t = CrLfCrLf
    <3>1. t \in Seq(Byte) /\ CrLfCrLf \in Seq(Byte)
          /\ Len(t) = Len(CrLfCrLf) /\ Len(t) = 4
      BY <2>1, Patterns DEF ByteSeq
    <3> QED BY ONLY <3>1, SameSeq
  <2>3. (/\ t[1] = CrLfCrLf[1] /\ t[2] = CrLfCrLf[2]
         /\ t[3] = CrLfCrLf[3] /\ t[4] = CrLfCrLf[4]) => t = CrLfCrLf
    BY <2>2
  <2> QED BY <2>1, <2>3, Patterns DEF t
<1> QED BY <1>1, <1>2

-----------------------------------------------------------------------------
(* Blank lines *)

\* A byte completes a blank line, byte by byte.
LEMMA CompletesIs ==
  ASSUME NEW s \in ByteSeq, NEW from \in Nat \ {0}, NEW p \in 1..Len(s)
  PROVE  Completes(s, from, p) <=>
           \/ /\ p - 1 >= from
              /\ s[p - 1] = "LF" /\ s[p] = "LF"
           \/ /\ p - 3 >= from
              /\ s[p - 3] = "CR" /\ s[p - 2] = "LF"
              /\ s[p - 1] = "CR" /\ s[p] = "LF"
<1>0. Len(s) \in Nat
  BY DEF ByteSeq
<1>1. ASSUME p - 1 >= from
      PROVE  SubSeq(s, p - 1, p) = LfLf <=> s[p - 1] = "LF" /\ s[p] = "LF"
  <2>1. p - 1 \in 1..Len(s) /\ (p - 1) + 1 = p
    BY <1>0, <1>1
  <2> QED BY <1>0, <2>1, PatternAt
<1>2. ASSUME p - 3 >= from
      PROVE  SubSeq(s, p - 3, p) = CrLfCrLf <=>
               /\ s[p - 3] = "CR" /\ s[p - 2] = "LF"
               /\ s[p - 1] = "CR" /\ s[p] = "LF"
  <2>1. /\ p - 3 \in 1..Len(s) /\ (p - 3) + 3 = p
        /\ (p - 3) + 1 = p - 2 /\ (p - 3) + 2 = p - 1
    BY <1>0, <1>2
  <2> QED BY <1>0, <2>1, PatternAt
<1> QED BY <1>1, <1>2 DEF Completes

\* It does so in any two texts that are the same up to there.
LEMMA CompletesSame ==
  ASSUME NEW s \in ByteSeq, NEW u \in ByteSeq, NEW from \in Nat \ {0},
         NEW p \in 1..Len(s), p <= Len(u), \A i \in 1..p : u[i] = s[i]
  PROVE  Completes(u, from, p) <=> Completes(s, from, p)
<1>0. Len(s) \in Nat /\ Len(u) \in Nat /\ p \in 1..Len(u) /\ p \in Nat
  BY DEF ByteSeq
<1>1. Completes(u, from, p) <=>
         \/ /\ p - 1 >= from
            /\ u[p - 1] = "LF" /\ u[p] = "LF"
         \/ /\ p - 3 >= from
            /\ u[p - 3] = "CR" /\ u[p - 2] = "LF"
            /\ u[p - 1] = "CR" /\ u[p] = "LF"
  BY <1>0, CompletesIs
<1>2. Completes(s, from, p) <=>
         \/ /\ p - 1 >= from
            /\ s[p - 1] = "LF" /\ s[p] = "LF"
         \/ /\ p - 3 >= from
            /\ s[p - 3] = "CR" /\ s[p - 2] = "LF"
            /\ s[p - 1] = "CR" /\ s[p] = "LF"
  BY CompletesIs
<1>3. u[p] = s[p] /\ (p - 1 >= from => u[p - 1] = s[p - 1])
      /\ (p - 3 >= from => u[p - 3] = s[p - 3] /\ u[p - 2] = s[p - 2])
  BY <1>0
<1>4. p - 3 >= from => p - 1 >= from
  BY <1>0
<1> QED BY <1>1, <1>2, <1>3, <1>4

\* So does find_frame_end look at them.
LEMMA AtIs ==
  ASSUME NEW s \in ByteSeq, NEW i \in 1..Len(s)
  PROVE  /\ At(s, i, LfLf) <=>
              i + 1 <= Len(s) /\ s[i] = "LF" /\ s[i + 1] = "LF"
         /\ At(s, i, CrLfCrLf) <=>
              /\ i + 3 <= Len(s)
              /\ s[i] = "CR" /\ s[i + 1] = "LF"
              /\ s[i + 2] = "CR" /\ s[i + 3] = "LF"
<1>1. Len(s) \in Nat /\ Len(LfLf) = 2 /\ Len(CrLfCrLf) = 4
  BY Patterns DEF ByteSeq
<1>2. /\ At(s, i, LfLf) <=> i + 1 <= Len(s) /\ SubSeq(s, i, i + 1) = LfLf
      /\ At(s, i, CrLfCrLf) <=> i + 3 <= Len(s) /\ SubSeq(s, i, i + 3) = CrLfCrLf
  <2>1. i + 2 - 1 = i + 1 /\ i + 4 - 1 = i + 3
    BY <1>1
  <2> QED BY <1>1, <2>1 DEF At
<1> QED BY <1>2, PatternAt

\* A blank line that is completed has begun.
LEMMA CompletedBegins ==
  ASSUME NEW s \in ByteSeq, NEW p \in 1..Len(s), Completes(s, 1, p)
  PROVE  \/ p - 1 >= 1 /\ At(s, p - 1, LfLf)
         \/ p - 3 >= 1 /\ At(s, p - 3, CrLfCrLf)
<1>0. Len(s) \in Nat /\ p \in Nat /\ p <= Len(s)
  BY DEF ByteSeq
<1>1. \/ p - 1 >= 1 /\ s[p - 1] = "LF" /\ s[p] = "LF"
      \/ /\ p - 3 >= 1
         /\ s[p - 3] = "CR" /\ s[p - 2] = "LF" /\ s[p - 1] = "CR" /\ s[p] = "LF"
  BY CompletesIs
<1>2. CASE p - 1 >= 1 /\ s[p - 1] = "LF" /\ s[p] = "LF"
  <2>1. p - 1 \in 1..Len(s) /\ (p - 1) + 1 = p
    BY <1>0, <1>2
  <2>2. At(s, p - 1, LfLf)
    BY <1>0, <1>2, <2>1, AtIs
  <2> QED BY <1>2, <2>2
<1>3. CASE /\ p - 3 >= 1
           /\ s[p - 3] = "CR" /\ s[p - 2] = "LF" /\ s[p - 1] = "CR" /\ s[p] = "LF"
  <2>1. /\ p - 3 \in 1..Len(s) /\ (p - 3) + 3 = p
        /\ (p - 3) + 1 = p - 2 /\ (p - 3) + 2 = p - 1
    BY <1>0, <1>3
  <2>2. At(s, p - 3, CrLfCrLf)
    BY <1>0, <1>3, <2>1, AtIs
  <2> QED BY <1>3, <2>2
<1> QED BY <1>1, <1>2, <1>3

\* find_frame_end looks for the first place where a blank line begins; that is
\* where the first one ends, since neither form begins inside the other.
LEMMA FrameEnd ==
  ASSUME NEW b \in ByteSeq
  PROVE  \/ /\ find_frame_end(b) = 0
            /\ \A p \in 1..Len(b) : ~Completes(b, 1, p)
         \/ /\ find_frame_end(b) \in 2..Len(b)
            /\ Completes(b, 1, find_frame_end(b))
            /\ \A p \in 1..find_frame_end(b) - 1 : ~Completes(b, 1, p)
<1>0. Len(b) \in Nat /\ DOMAIN b = 1..Len(b)
  BY DEF ByteSeq
<1>1. CASE FrameStarts(b) = {}
  <2>1. \A i \in 1..Len(b) : ~At(b, i, LfLf) /\ ~At(b, i, CrLfCrLf)
    BY <1>0, <1>1 DEF FrameStarts
  <2>2. ASSUME NEW p \in 1..Len(b) PROVE ~Completes(b, 1, p)
    <3>1. p - 1 \in Int /\ p - 3 \in Int /\ p \in Nat
      BY <1>0
    <3>2. /\ p - 1 >= 1 => p - 1 \in 1..Len(b)
          /\ p - 3 >= 1 => p - 3 \in 1..Len(b)
      BY <1>0
    <3> QED BY <2>1, <3>1, <3>2, CompletedBegins
  <2> QED BY <1>1, <2>2 DEF find_frame_end
<1>2. CASE FrameStarts(b) # {}
  <2> DEFINE i == Min(FrameStarts(b))
  <2>1. FrameStarts(b) \in SUBSET Nat
    BY <1>0 DEF FrameStarts
  <2>2. i \in FrameStarts(b) /\ \A j \in FrameStarts(b) : i <= j
    <3>1. \E n \in FrameStarts(b) : \A m \in FrameStarts(b) : n <= m
      BY <1>2, <2>1, LeastNatural
    <3> QED BY <3>1 DEF Min
  <2> HIDE DEF i
  <2>3. i \in 1..Len(b) /\ (At(b, i, LfLf) \/ At(b, i, CrLfCrLf))
    BY <1>0, <2>2 DEF FrameStarts
  <2>4. \A j \in 1..i - 1 : ~At(b, j, LfLf) /\ ~At(b, j, CrLfCrLf)
    BY <1>0, <2>2, <2>3 DEF FrameStarts
  <2>5. CASE At(b, i, LfLf)
    <3>1. find_frame_end(b) = i + 1
      BY <1>2, <2>5 DEF find_frame_end, i
    <3>2. i + 1 <= Len(b) /\ b[i] = "LF" /\ b[i + 1] = "LF"
      BY <2>3, <2>5, AtIs
    <3>3. Completes(b, 1, i + 1)
      BY <1>0, <2>3, <3>2, CompletesIs
    <3>4. ASSUME NEW p \in 1..i PROVE ~Completes(b, 1, p)
      BY <1>0, <2>3, <2>4, <3>2, AtIs, CompletesIs
    <3> QED BY <1>0, <2>3, <3>1, <3>2, <3>3, <3>4
  <2>6. CASE ~At(b, i, LfLf)
    <3>1. find_frame_end(b) = i + 3
      BY <1>2, <2>6 DEF find_frame_end, i
    <3>2. /\ i + 3 <= Len(b)
          /\ b[i] = "CR" /\ b[i + 1] = "LF" /\ b[i + 2] = "CR" /\ b[i + 3] = "LF"
      BY <2>3, <2>6, AtIs
    <3>3. Completes(b, 1, i + 3)
      BY <1>0, <2>3, <3>2, CompletesIs
    <3>4. ASSUME NEW p \in 1..i + 2 PROVE ~Completes(b, 1, p)
      <4>1. p \in 1..Len(b) /\ Len(b) \in Nat
        BY <1>0, <2>3, <3>2
      <4>2. CASE p <= i
        BY <1>0, <2>3, <2>4, <3>2, <4>1, <4>2, AtIs, CompletesIs
      <4>3. CASE p = i + 1
        BY <1>0, <2>3, <2>4, <3>2, <4>1, <4>3, AtIs, CompletesIs
      <4>4. CASE p = i + 2
        BY <1>0, <2>3, <2>4, <3>2, <4>1, <4>4, AtIs, CompletesIs
      <4> QED BY <2>3, <4>2, <4>3, <4>4
    <3> QED BY <1>0, <2>3, <3>1, <3>2, <3>3, <3>4
  <2> QED BY <2>5, <2>6
<1> QED BY <1>1, <1>2

-----------------------------------------------------------------------------
(* The frames of a stream *)

Start == [from |-> 1, frames |-> <<>>]

\* What byte q makes of the frames before it.
CutStep(bytes, c, q) ==
  IF Completes(bytes, c.from, q)
  THEN [from |-> q + 1, frames |-> Append(c.frames, SubSeq(bytes, c.from, q))]
  ELSE c

\* h[q] is what is cut at q, for each q up to n.
Cuts(h, bytes, n) ==
  h = [q \in 0..n |-> IF q = 0 THEN Start ELSE CutStep(bytes, h[q - 1], q)]

\* The recursion of CutAt has a solution.
LEMMA CutExists ==
  ASSUME NEW bytes, NEW N \in Nat
  PROVE  \E h : Cuts(h, bytes, N)
<1> DEFINE Bad == {k \in Nat : ~\E h : Cuts(h, bytes, k)}
<1>1. Bad = {}
  <2> SUFFICES ASSUME Bad # {} PROVE FALSE
    OBVIOUS
  <2>1. PICK k \in Bad : \A m \in Bad : k <= m
    <3>1. Bad \in SUBSET Nat
      OBVIOUS
    <3> HIDE DEF Bad
    <3> QED BY <3>1, LeastNatural
  <2>2. k # 0
    <3>1. Cuts([q \in 0..0 |-> Start], bytes, 0)
      BY DEF Cuts
    <3> QED BY <3>1, <2>1
  <2>3. k - 1 \in Nat /\ k - 1 \notin Bad
    BY <2>1, <2>2
  <2>4. PICK h : Cuts(h, bytes, k - 1)
    BY <2>3
  <2> DEFINE g == [q \in 0..k |-> IF q = k THEN CutStep(bytes, h[k - 1], k) ELSE h[q]]
  <2>5. Cuts(g, bytes, k)
    BY <2>1, <2>2, <2>4 DEF Cuts
  <2> QED BY <2>1, <2>5
<1> QED BY <1>1

\* It has only one.
LEMMA CutUnique ==
  ASSUME NEW bytes, NEW m \in Nat, NEW n \in Nat, NEW h, NEW g,
         Cuts(h, bytes, m), Cuts(g, bytes, n)
  PROVE  \A k \in Nat : k <= m /\ k <= n => h[k] = g[k]
<1> DEFINE Bad == {k \in Nat : k <= m /\ k <= n /\ h[k] # g[k]}
<1> SUFFICES ASSUME Bad # {} PROVE FALSE
  OBVIOUS
<1>1. PICK k \in Bad : \A j \in Bad : k <= j
  <2>1. Bad \in SUBSET Nat
    OBVIOUS
  <2> HIDE DEF Bad
  <2> QED BY <2>1, LeastNatural
<1>2. k \in Nat /\ k <= m /\ k <= n /\ h[k] # g[k]
  BY <1>1
<1>3. h[0] = Start /\ g[0] = Start
  BY DEF Cuts
<1>4. k # 0
  BY <1>2, <1>3
<1>5. k - 1 \in Nat /\ k - 1 \notin Bad
  BY <1>1, <1>2, <1>4
<1>6. h[k - 1] = g[k - 1]
  BY <1>2, <1>5
<1>7. h[k] = CutStep(bytes, h[k - 1], k) /\ g[k] = CutStep(bytes, g[k - 1], k)
  BY <1>2, <1>4 DEF Cuts
<1> QED BY <1>2, <1>6, <1>7

\* CutAt goes through the stream byte by byte.
LEMMA CutAtIs ==
  ASSUME NEW bytes
  PROVE  /\ CutAt(bytes, 0) = Start
         /\ \A p \in Nat \ {0} : CutAt(bytes, p) = CutStep(bytes, CutAt(bytes, p - 1), p)
<1> DEFINE F(p) == CHOOSE h : Cuts(h, bytes, p)
<1>1. ASSUME NEW p \in Nat
      PROVE  Cuts(F(p), bytes, p) /\ CutAt(bytes, p) = F(p)[p]
  <2>1. Cuts(F(p), bytes, p)
    BY CutExists
  <2>2. CutAt(bytes, p) = F(p)[p]
    BY DEF CutAt, Cuts, CutStep, Start
  <2> QED BY <2>1, <2>2
<1> HIDE DEF F
<1>2. CutAt(bytes, 0) = Start
  BY <1>1 DEF Cuts
<1>3. ASSUME NEW p \in Nat \ {0}
      PROVE  CutAt(bytes, p) = CutStep(bytes, CutAt(bytes, p - 1), p)
  <2>1. p - 1 \in Nat
    OBVIOUS
  <2>2. F(p)[p] = CutStep(bytes, F(p)[p - 1], p)
    BY <1>1 DEF Cuts
  <2>3. F(p)[p - 1] = F(p - 1)[p - 1]
    BY <1>1, <2>1, CutUnique
  <2> QED BY <1>1, <2>1, <2>2, <2>3
<1> QED BY <1>2, <1>3

\* Frames are parts of the stream, and the next one begins after them.
LEMMA CutType ==
  ASSUME NEW s \in ByteSeq
  PROVE  \A p \in 0..Len(s) : /\ CutAt(s, p).from \in 1..p + 1
                              /\ CutAt(s, p).frames \in Seq(ByteSeq)
<1>0. Len(s) \in Nat
  BY DEF ByteSeq
<1> DEFINE Ok(p) == CutAt(s, p).from \in 1..p + 1 /\ CutAt(s, p).frames \in Seq(ByteSeq)
           Bad == {p \in 0..Len(s) : ~Ok(p)}
<1> SUFFICES ASSUME Bad # {} PROVE FALSE
  OBVIOUS
<1>1. PICK p \in Bad : \A q \in Bad : p <= q
  <2>1. Bad \in SUBSET Nat
    BY <1>0
  <2> HIDE DEF Bad
  <2> QED BY <2>1, LeastNatural
<1>2. p \in 0..Len(s) /\ ~Ok(p)
  BY <1>1
<1>3. Ok(0)
  <2>1. CutAt(s, 0).from = 1 /\ CutAt(s, 0).frames = <<>>
    BY CutAtIs DEF Start
  <2>2. 1 \in 1..0 + 1 /\ <<>> \in Seq(ByteSeq)
    OBVIOUS
  <2>3. CutAt(s, 0).from \in 1..0 + 1
    BY <2>1, <2>2
  <2>4. CutAt(s, 0).frames \in Seq(ByteSeq)
    BY <2>1, <2>2, Zenon
  <2> QED BY <2>3, <2>4
<1>4. p \in 1..Len(s) /\ p - 1 \in 0..Len(s)
  BY <1>0, <1>2, <1>3
<1>5. Ok(p - 1)
  BY <1>0, <1>1, <1>4
<1>6. CutAt(s, p) = CutStep(s, CutAt(s, p - 1), p)
  BY <1>0, <1>4, CutAtIs
<1> DEFINE c == CutAt(s, p - 1)
<1>7. c.from \in 1..p /\ c.frames \in Seq(ByteSeq)
  BY <1>0, <1>4, <1>5
<1> HIDE DEF c
<1>8. SubSeq(s, c.from, p) \in ByteSeq
  BY <1>0, <1>4, <1>7, SliceIs DEF ByteSeq
<1>9. Append(c.frames, SubSeq(s, c.from, p)) \in Seq(ByteSeq)
  <2> HIDE DEF ByteSeq
  <2> QED BY <1>7, <1>8
<1>10. Ok(p)
  BY <1>0, <1>4, <1>6, <1>7, <1>9 DEF CutStep, c
<1> QED BY <1>2, <1>10

\* What is cut at p depends on the bytes up to p only.
LEMMA CutLocal ==
  ASSUME NEW s \in ByteSeq, NEW t \in ByteSeq
  PROVE  \A p \in 0..Len(s) : CutAt(s \o t, p) = CutAt(s, p)
<1> DEFINE u == s \o t
<1>0. /\ Len(s) \in Nat /\ u \in ByteSeq /\ Len(u) \in Nat /\ Len(s) <= Len(u)
      /\ \A i \in 1..Len(s) : u[i] = s[i]
  BY DEF ByteSeq
<1> HIDE DEF u
<1> DEFINE Bad == {p \in 0..Len(s) : CutAt(u, p) # CutAt(s, p)}
<1> SUFFICES ASSUME Bad # {} PROVE FALSE
  BY DEF u
<1>1. PICK p \in Bad : \A q \in Bad : p <= q
  <2>1. Bad \in SUBSET Nat
    BY <1>0
  <2> HIDE DEF Bad
  <2> QED BY <2>1, LeastNatural
<1>2. p \in 0..Len(s) /\ CutAt(u, p) # CutAt(s, p)
  BY <1>1
<1>3. p # 0
  BY <1>2, CutAtIs
<1>4. p \in 1..Len(s) /\ p \in 1..Len(u) /\ p - 1 \in 0..Len(s) /\ p \in Nat \ {0}
  BY <1>0, <1>2, <1>3
<1>5. CutAt(u, p - 1) = CutAt(s, p - 1)
  BY <1>0, <1>1, <1>4
<1> DEFINE c == CutAt(s, p - 1)
<1>6. c.from \in 1..p /\ c.frames \in Seq(ByteSeq)
  BY <1>0, <1>4, CutType
<1>7. CutAt(u, p) = CutStep(u, c, p) /\ CutAt(s, p) = CutStep(s, c, p)
  BY <1>4, <1>5, CutAtIs
<1> HIDE DEF c
<1>8. Completes(u, c.from, p) <=> Completes(s, c.from, p)
  <2>1. c.from \in Nat \ {0} /\ p <= Len(u) /\ \A i \in 1..p : u[i] = s[i]
    BY <1>0, <1>4, <1>6
  <2> QED BY <1>0, <1>4, <2>1, CompletesSame
<1>9. SubSeq(u, c.from, p) = SubSeq(s, c.from, p)
  <2> DEFINE v == SubSeq(u, c.from, p)
             w == SubSeq(s, c.from, p)
             n == p - c.from + 1
  <2>1. n \in Nat /\ c.from \in 1..Len(s) + 1 /\ c.from \in 1..Len(u) + 1
        /\ p \in c.from - 1..Len(s) /\ p \in c.from - 1..Len(u)
    BY <1>0, <1>4, <1>6
  <2>2. v \in Seq(Byte) /\ Len(v) = n /\ \A i \in 1..n : v[i] = u[c.from + i - 1]
    BY <1>0, <2>1, SliceIs DEF ByteSeq
  <2>3. w \in Seq(Byte) /\ Len(w) = n /\ \A i \in 1..n : w[i] = s[c.from + i - 1]
    BY <2>1, SliceIs DEF ByteSeq
  <2> HIDE DEF v, w
  <2>4. \A i \in 1..n : v[i] = w[i]
    <3> SUFFICES ASSUME NEW i \in 1..n PROVE v[i] = w[i]
      OBVIOUS
    <3>1. c.from + i - 1 \in 1..Len(s)
      <4>1. c.from \in Nat /\ c.from >= 1 /\ p \in Nat /\ p <= Len(s) /\ Len(s) \in Nat
        BY <1>0, <1>4, <1>6
      <4>2. i \in Nat /\ i >= 1 /\ i <= p - c.from + 1
        BY ONLY <2>1, <4>1, i \in 1..n
      <4> QED BY ONLY <4>1, <4>2
    <3> QED BY <1>0, <2>2, <2>3, <3>1
  <2>5. v = w
    BY <2>2, <2>3, <2>4, SameSeq
  <2> QED BY <2>5 DEF v, w
<1>10. CutStep(u, c, p) = CutStep(s, c, p)
  BY <1>8, <1>9 DEF CutStep
<1> QED BY <1>2, <1>7, <1>10

\* While no blank line is completed nothing is cut.
LEMMA NothingCut ==
  ASSUME NEW s \in ByteSeq, NEW p \in 0..Len(s), NEW q \in p..Len(s),
         \A r \in p + 1..q : ~Completes(s, CutAt(s, p).from, r)
  PROVE  CutAt(s, q) = CutAt(s, p)
<1>0. Len(s) \in Nat /\ p \in Nat /\ q \in Nat
  BY DEF ByteSeq
<1> DEFINE Bad == {r \in p..q : CutAt(s, r) # CutAt(s, p)}
<1> SUFFICES ASSUME Bad # {} PROVE FALSE
  BY <1>0
<1>1. PICK r \in Bad : \A k \in Bad : r <= k
  <2>1. Bad \in SUBSET Nat
    BY <1>0
  <2> HIDE DEF Bad
  <2> QED BY <2>1, LeastNatural
<1>2. r \in p + 1..q /\ r - 1 \in p..q /\ r \in Nat \ {0}
  BY <1>0, <1>1
<1>3. CutAt(s, r - 1) = CutAt(s, p)
  BY <1>0, <1>1, <1>2
<1>4. CutAt(s, r) = CutStep(s, CutAt(s, p), r)
  BY <1>2, <1>3, CutAtIs
<1>5. CutAt(s, r) = CutAt(s, p)
  BY <1>2, <1>4 DEF CutStep
<1> QED BY <1>1, <1>5

\* The frames at p were complete when the last of them was.
LEMMA CutBack ==
  ASSUME NEW s \in ByteSeq
  PROVE  \A p \in 0..Len(s) : CutAt(s, CutAt(s, p).from - 1) = CutAt(s, p)
<1>0. Len(s) \in Nat
  BY DEF ByteSeq
<1> DEFINE Bad == {p \in 0..Len(s) : CutAt(s, CutAt(s, p).from - 1) # CutAt(s, p)}
<1> SUFFICES ASSUME Bad # {} PROVE FALSE
  OBVIOUS
<1>1. PICK p \in Bad : \A q \in Bad : p <= q
  <2>1. Bad \in SUBSET Nat
    BY <1>0
  <2> HIDE DEF Bad
  <2> QED BY <2>1, LeastNatural
<1>2. p \in 0..Len(s) /\ CutAt(s, CutAt(s, p).from - 1) # CutAt(s, p)
  BY <1>1
<1>3. CutAt(s, 0).from = 1
  BY CutAtIs DEF Start
<1>4. p \in 1..Len(s) /\ p - 1 \in 0..Len(s) /\ p \in Nat \ {0}
  BY <1>0, <1>2, <1>3
<1>5. CutAt(s, CutAt(s, p - 1).from - 1) = CutAt(s, p - 1)
  BY <1>0, <1>1, <1>4
<1>6. CutAt(s, p) = CutStep(s, CutAt(s, p - 1), p)
  BY <1>4, CutAtIs
<1>7. CASE Completes(s, CutAt(s, p - 1).from, p)
  <2>1. CutAt(s, p).from = p + 1
    BY <1>6, <1>7 DEF CutStep
  <2> QED BY <1>2, <1>4, <2>1
<1>8. CASE ~Completes(s, CutAt(s, p - 1).from, p)
  BY <1>2, <1>5, <1>6, <1>8 DEF CutStep
<1> QED BY <1>7, <1>8

\* The frames at p are the first of those at q.
LEMMA CutGrows ==
  ASSUME NEW s \in ByteSeq, NEW p \in 0..Len(s)
  PROVE  \A q \in p..Len(s) :
           /\ Len(CutAt(s, p).frames) <= Len(CutAt(s, q).frames)
           /\ \A i \in 1..Len(CutAt(s, p).frames) :
                CutAt(s, q).frames[i] = CutAt(s, p).frames[i]
<1>0. Len(s) \in Nat /\ p \in Nat
  BY DEF ByteSeq
<1> DEFINE F == CutAt(s, p).frames
           G(q) == CutAt(s, q).frames
           Ok(q) == Len(F) <= Len(G(q)) /\ \A i \in 1..Len(F) : G(q)[i] = F[i]
           Bad == {q \in p..Len(s) : ~Ok(q)}
<1> SUFFICES ASSUME Bad # {} PROVE FALSE
  OBVIOUS
<1>1. PICK q \in Bad : \A k \in Bad : q <= k
  <2>1. Bad \in SUBSET Nat
    BY <1>0
  <2> HIDE DEF Bad
  <2> QED BY <2>1, LeastNatural
<1>2. q \in p..Len(s) /\ ~Ok(q)
  BY <1>1
<1>3. F \in Seq(ByteSeq) /\ \A k \in p..Len(s) : G(k) \in Seq(ByteSeq)
  BY <1>0, CutType
<1>4. q # p
  <2>1. Len(F) \in Nat
    BY <1>3
  <2>2. Ok(p)
    BY <2>1
  <2> QED BY <1>2, <2>2
<1>5. q \in Nat \ {0} /\ q - 1 \in p..Len(s)
  BY <1>0, <1>2, <1>4
<1>6. Ok(q - 1)
  BY <1>0, <1>1, <1>5
<1>7. CutAt(s, q) = CutStep(s, CutAt(s, q - 1), q)
  BY <1>5, CutAtIs
<1>8. G(q) = G(q - 1) \/ \E x : G(q) = Append(G(q - 1), x)
  <2>1. CASE Completes(s, CutAt(s, q - 1).from, q)
    <3>1. G(q) = Append(G(q - 1), SubSeq(s, CutAt(s, q - 1).from, q))
      <4> DEFINE x == Append(CutAt(s, q - 1).frames, SubSeq(s, CutAt(s, q - 1).from, q))
      <4>1. CutAt(s, q) = [from |-> q + 1, frames |-> x]
        BY <1>7, <2>1 DEF CutStep
      <4> HIDE DEF x
      <4>2. CutAt(s, q).frames = x
        BY <4>1
      <4> QED BY <4>2 DEF x
    <3> QED BY <3>1
  <2>2. CASE ~Completes(s, CutAt(s, q - 1).from, q)
    BY <1>7, <2>2 DEF CutStep
  <2> QED BY <2>1, <2>2
<1>9. G(q - 1) \in Seq(ByteSeq) /\ G(q) \in Seq(ByteSeq)
  BY <1>2, <1>3, <1>5
<1> HIDE DEF F, G
<1>10. Len(F) \in Nat /\ Len(G(q - 1)) \in Nat
  BY <1>3, <1>9
<1>11. Len(G(q - 1)) <= Len(G(q)) /\ \A i \in 1..Len(G(q - 1)) : G(q)[i] = G(q - 1)[i]
  BY <1>8, <1>9, <1>10
<1>12. Ok(q)
  BY <1>6, <1>9, <1>10, <1>11
<1> QED BY <1>2, <1>12

-----------------------------------------------------------------------------
(* The drain loop *)

\* A blank line in the rest of a stream is one in the stream.
LEMMA CompletesShift ==
  ASSUME NEW s \in ByteSeq, NEW f \in 1..Len(s) + 1, NEW r \in 1..Len(s) - f + 1
  PROVE  Completes(SubSeq(s, f, Len(s)), 1, r) <=> Completes(s, f, f + r - 1)
<1>0. Len(s) \in Nat /\ f \in Nat \ {0} /\ r \in Nat \ {0} /\ f + r - 1 \in 1..Len(s)
  BY DEF ByteSeq
<1> DEFINE b == SubSeq(s, f, Len(s))
<1>1. /\ b \in ByteSeq /\ Len(b) = Len(s) - f + 1
      /\ \A i \in 1..Len(s) - f + 1 : b[i] = s[f + i - 1]
  BY <1>0, SliceIs DEF ByteSeq
<1> HIDE DEF b
<1>2. Completes(b, 1, r) <=>
           \/ /\ r - 1 >= 1
              /\ b[r - 1] = "LF" /\ b[r] = "LF"
           \/ /\ r - 3 >= 1
              /\ b[r - 3] = "CR" /\ b[r - 2] = "LF"
              /\ b[r - 1] = "CR" /\ b[r] = "LF"
  BY <1>0, <1>1, CompletesIs
<1> DEFINE p == f + r - 1
<1>3. Completes(s, f, p) <=>
           \/ /\ p - 1 >= f
              /\ s[p - 1] = "LF" /\ s[p] = "LF"
           \/ /\ p - 3 >= f
              /\ s[p - 3] = "CR" /\ s[p - 2] = "LF"
              /\ s[p - 1] = "CR" /\ s[p] = "LF"
  BY <1>0, CompletesIs
<1>4. /\ p - 1 >= f <=> r - 1 >= 1
      /\ p - 3 >= f <=> r - 3 >= 1
      /\ f + (r - 1) - 1 = p - 1 /\ f + (r - 2) - 1 = p - 2 /\ f + (r - 3) - 1 = p - 3
  BY <1>0
<1>5. b[r] = s[p] /\ (r - 1 >= 1 => b[r - 1] = s[p - 1])
      /\ (r - 3 >= 1 => b[r - 2] = s[p - 2] /\ b[r - 3] = s[p - 3])
  BY <1>0, <1>1, <1>4
<1>6. r - 3 >= 1 => r - 1 >= 1
  BY <1>0
<1> HIDE DEF p
<1>7. Completes(b, 1, r) <=> Completes(s, f, p)
  BY <1>2, <1>3, <1>4, <1>5, <1>6
<1> QED BY <1>7 DEF b, p

\* What find_frame_end cuts off the rest of a stream is the stream's next frame.
LEMMA NextFrame ==
  ASSUME NEW s \in ByteSeq, NEW f \in 1..Len(s) + 1, CutAt(s, f - 1).from = f
  PROVE  LET b == SubSeq(s, f, Len(s))
             e == find_frame_end(b)
         IN  /\ e = 0 => Cut(s) = CutAt(s, f - 1)
             /\ e # 0 => /\ e \in 2..Len(s) - f + 1
                         /\ SubSeq(b, 1, e) \in ByteSeq
                         /\ CutAt(s, f + e - 1) =
                              [from |-> f + e,
                               frames |-> Append(CutAt(s, f - 1).frames,
                                                 SubSeq(b, 1, e))]
<1> DEFINE b == SubSeq(s, f, Len(s))
           e == find_frame_end(b)
<1>0. Len(s) \in Nat /\ f \in Nat \ {0} /\ f - 1 \in 0..Len(s)
  BY DEF ByteSeq
<1>1. /\ b \in ByteSeq /\ Len(b) = Len(s) - f + 1
      /\ \A i \in 1..Len(s) - f + 1 : b[i] = s[f + i - 1]
  BY <1>0, SliceIs DEF ByteSeq
<1> SUFFICES /\ e = 0 => Cut(s) = CutAt(s, f - 1)
             /\ e # 0 => /\ e \in 2..Len(s) - f + 1
                         /\ SubSeq(b, 1, e) \in ByteSeq
                         /\ CutAt(s, f + e - 1) =
                              [from |-> f + e,
                               frames |-> Append(CutAt(s, f - 1).frames,
                                                 SubSeq(b, 1, e))]
  OBVIOUS
<1>b. \A p \in 1..Len(s) - f + 1 : Completes(b, 1, p) <=> Completes(s, f, f + p - 1)
  BY CompletesShift
<1>c. \/ /\ e = 0
         /\ \A p \in 1..Len(b) : ~Completes(b, 1, p)
      \/ /\ e \in 2..Len(b)
         /\ Completes(b, 1, e)
         /\ \A p \in 1..e - 1 : ~Completes(b, 1, p)
  BY <1>1, FrameEnd
<1> HIDE DEF b, e
<1>2. CASE e = 0
  <2>1. \A p \in 1..Len(b) : ~Completes(b, 1, p)
    <3>1. 0 \notin 2..Len(b)
      BY <1>0, <1>1
    <3> QED BY <1>2, <1>c, <3>1
  <2>2. ASSUME NEW r \in (f - 1) + 1..Len(s) PROVE ~Completes(s, f, r)
    <3>1. r - f + 1 \in 1..Len(s) - f + 1 /\ f + (r - f + 1) - 1 = r
      BY <1>0
    <3> QED BY <1>1, <1>b, <2>1, <3>1
  <2>3. Len(s) \in f - 1..Len(s)
    BY <1>0
  <2>4. CutAt(s, Len(s)) = CutAt(s, f - 1)
    BY <1>0, <2>2, <2>3, NothingCut
  <2> QED BY <1>2, <2>4 DEF Cut
<1>3. CASE e # 0
  <2>1. /\ e \in 2..Len(s) - f + 1 /\ Completes(b, 1, e)
        /\ \A p \in 1..e - 1 : ~Completes(b, 1, p)
    BY <1>1, <1>3, <1>c
  <2>2. e \in Nat /\ e >= 2 /\ f + e - 2 \in 0..Len(s) /\ f + e - 2 \in f - 1..Len(s)
        /\ f + e - 1 \in Nat \ {0} /\ e \in 1..Len(s) - f + 1
    BY <1>0, <2>1
  <2>3. ASSUME NEW r \in (f - 1) + 1..f + e - 2 PROVE ~Completes(s, f, r)
    <3>1. r - f + 1 \in 1..Len(s) - f + 1 /\ r - f + 1 \in 1..e - 1
          /\ f + (r - f + 1) - 1 = r
      BY <1>0, <2>1, <2>2
    <3> QED BY <1>1, <1>b, <2>1, <3>1
  <2>4. CutAt(s, f + e - 2) = CutAt(s, f - 1)
    BY <1>0, <2>2, <2>3, NothingCut
  <2>5. Completes(s, f, f + e - 1)
    BY <1>b, <2>1, <2>2
  <2>6. CutAt(s, f + e - 1) = CutStep(s, CutAt(s, f + e - 2), f + e - 1)
    <3>1. (f + e - 1) - 1 = f + e - 2
      BY <1>0, <2>2
    <3> QED BY <2>2, <3>1, CutAtIs
  <2> DEFINE v == SubSeq(b, 1, e)
             w == SubSeq(s, f, f + e - 1)
  <2>7. v \in Seq(Byte) /\ Len(v) = e /\ \A i \in 1..e : v[i] = b[i]
    <3>1. /\ v \in Seq(Byte) /\ Len(v) = e - 1 + 1
          /\ \A i \in 1..e - 1 + 1 : v[i] = b[1 + i - 1]
      <4>1. 1 \in 1..Len(b) + 1 /\ e \in 1 - 1..Len(b)
        BY <1>0, <1>1, <2>1
      <4> QED BY <1>1, <4>1, SliceIs DEF ByteSeq
    <3>2. e - 1 + 1 = e /\ \A i \in 1..e : 1 + i - 1 = i
      BY <2>2
    <3> HIDE DEF v
    <3> QED BY <3>1, <3>2
  <2>8. w \in Seq(Byte) /\ Len(w) = e /\ \A i \in 1..e : w[i] = s[f + i - 1]
    <3>1. /\ w \in Seq(Byte) /\ Len(w) = (f + e - 1) - f + 1
          /\ \A i \in 1..(f + e - 1) - f + 1 : w[i] = s[f + i - 1]
      <4>1. f \in 1..Len(s) + 1 /\ f + e - 1 \in f - 1..Len(s)
        BY <1>0, <2>1
      <4> QED BY <4>1, SliceIs DEF ByteSeq
    <3>2. (f + e - 1) - f + 1 = e
      BY <1>0, <2>2
    <3> QED BY <3>1, <3>2
  <2> HIDE DEF v, w
  <2>9. v = w
    <3>1. ASSUME NEW i \in 1..e PROVE v[i] = w[i]
      <4>1. i \in 1..Len(b)
        BY <1>0, <1>1, <2>1
      <4>2. b[i] = s[f + i - 1]
        BY <1>1, <4>1
      <4> QED BY <2>7, <2>8, <4>2
    <3> QED BY <2>7, <2>8, <3>1, SameSeq
  <2>10. (f + e - 1) + 1 = f + e
    BY <1>0, <2>2
  <2>11. CutAt(s, f + e - 1) =
           [from |-> f + e, frames |-> Append(CutAt(s, f - 1).frames, w)]
    BY <2>4, <2>5, <2>6, <2>10 DEF CutStep, w
  <2>12. v \in ByteSeq
    BY <2>7 DEF ByteSeq
  <2> QED BY <1>3, <2>1, <2>9, <2>11, <2>12 DEF v
<1> QED BY <1>2, <1>3

Outgoing == Seq(Byte \cup {"value"})

\* A frame that is passed on is one of the same length.
LEMMA TransformType ==
  ASSUME NEW frame \in ByteSeq
  PROVE  transform_frame(frame) \in Outgoing
<1>1. Len(frame) \in Nat /\ DOMAIN frame = 1..Len(frame)
      /\ \A i \in 1..Len(frame) : frame[i] \in Byte
  BY DEF ByteSeq
<1>2. frame \in Outgoing
  BY DEF ByteSeq, Outgoing
<1>3. [i \in DOMAIN frame |-> IF frame[i] = "token" THEN "value" ELSE frame[i]]
        \in Outgoing
  BY <1>1 DEF Outgoing
<1> QED BY <1>2, <1>3 DEF transform_frame

\* After some rounds that began at f0 of the stream, the loop has come to f.
Reached(s, f0, a, f) ==
  LET F0 == CutAt(s, f0 - 1).frames
      F  == CutAt(s, f - 1).frames
  IN  /\ f \in f0..Len(s) + 1
      /\ a.failed = FALSE
      /\ a.buffer = SubSeq(s, f, Len(s))
      /\ a.frames \in Seq(Outgoing)
      /\ CutAt(s, f - 1).from = f
      /\ Len(F) = Len(F0) + Len(a.frames)
      /\ \A j \in 1..Len(a.frames) : /\ ~Broken(F[Len(F0) + j])
                                     /\ a.frames[j] = transform_frame(F[Len(F0) + j])

\* A round ends the loop, fails, or comes to the next frame.
LEMMA DrainStep ==
  ASSUME NEW s \in ByteSeq, NEW f0 \in 1..Len(s) + 1, NEW a, NEW f, Reached(s, f0, a, f),
         NEW e, e = find_frame_end(a.buffer)
  PROVE  /\ e = 0 => Drain(a) = a
         /\ e # 0 => /\ e \in Nat
                     /\ e >= 2
                     /\ Drain(a).failed \in BOOLEAN
                     /\ Drain(a).failed \/ Reached(s, f0, Drain(a), f + e)
<1> DEFINE F0 == CutAt(s, f0 - 1).frames
           F  == CutAt(s, f - 1).frames
           b  == a.buffer
           frame == SubSeq(b, 1, e)
<1>0. Len(s) \in Nat /\ f0 \in Nat \ {0} /\ f \in 1..Len(s) + 1 /\ f \in Nat \ {0}
      /\ f0 - 1 \in 0..Len(s) /\ f - 1 \in 0..Len(s) /\ f >= f0
  BY DEF ByteSeq, Reached
<1>b. b = SubSeq(s, f, Len(s)) /\ CutAt(s, f - 1).from = f /\ e = find_frame_end(b)
  BY DEF Reached
<1> HIDE DEF b
<1>1. CASE e = 0
  BY <1>1 DEF Drain
<1>2. CASE e # 0
  <2>1. /\ e \in 2..Len(s) - f + 1
        /\ frame \in ByteSeq
        /\ CutAt(s, f + e - 1) = [from |-> f + e, frames |-> Append(F, frame)]
    <3>1. /\ find_frame_end(b) = 0 => Cut(s) = CutAt(s, f - 1)
          /\ find_frame_end(b) # 0 =>
               /\ find_frame_end(b) \in 2..Len(s) - f + 1
               /\ SubSeq(b, 1, find_frame_end(b)) \in ByteSeq
               /\ CutAt(s, f + find_frame_end(b) - 1) =
                     [from |-> f + find_frame_end(b),
                      frames |-> Append(CutAt(s, f - 1).frames,
                                        SubSeq(b, 1, find_frame_end(b)))]
      BY <1>0, <1>b, NextFrame, Zenon
    <3> QED BY <1>2, <1>b, <3>1, Zenon
  <2>e. e \in Nat /\ e >= 2 /\ e <= Len(s) - f + 1
    <3>1. e \in 2..Len(s) - f + 1
      BY <2>1
    <3> QED BY <1>0, <3>1
  <2>2. F0 \in Seq(ByteSeq) /\ F \in Seq(ByteSeq)
    BY <1>0, CutType
  <2>3. Broken(frame) \in BOOLEAN
    BY DEF Broken, Contains
  <2>4. Drain(a) = [buffer |-> SubSeq(b, e + 1, Len(b)),
                    frames |-> IF Broken(frame) THEN a.frames
                               ELSE Append(a.frames, transform_frame(frame)),
                    failed |-> Broken(frame)]
    BY <1>2 DEF Drain, Reached, b
  <2>5. ASSUME ~Broken(frame) PROVE Reached(s, f0, Drain(a), f + e)
    <3> DEFINE x == Drain(a)
               out1 == transform_frame(frame)
               G == CutAt(s, f + e - 1).frames
    <3>1. x.failed = FALSE /\ x.frames = Append(a.frames, out1)
          /\ x.buffer = SubSeq(b, e + 1, Len(b))
      <4> HIDE DEF frame
      <4>1. Broken(frame) = FALSE
        BY <2>3, <2>5
      <4>2. x = [buffer |-> SubSeq(b, e + 1, Len(b)),
                 frames |-> Append(a.frames, out1), failed |-> FALSE]
        BY <2>4, <4>1
      <4> HIDE DEF x, out1
      <4> QED BY <4>2
    <3>2. out1 \in Outgoing /\ a.frames \in Seq(Outgoing)
      BY <2>1, TransformType DEF Reached
    <3>3. f + e \in f0..Len(s) + 1 /\ (f + e) - 1 = f + e - 1
      BY <1>0, <2>e
    <3>4. CutAt(s, f + e - 1).from = f + e /\ G = Append(F, frame)
      <4> HIDE DEF frame, F
      <4> QED BY <2>1
    <3>5. SubSeq(b, e + 1, Len(b)) = SubSeq(s, f + e, Len(s))
      <4>1. /\ b \in Seq(Byte) /\ Len(b) = Len(s) - f + 1
            /\ \A i \in 1..Len(s) - f + 1 : b[i] = s[f + i - 1]
        BY <1>0, <1>b, SliceIs DEF ByteSeq
      <4>2. e \in 0..Len(s) - f + 1
        BY <1>0, <2>e
      <4> QED BY <1>0, <1>b, <4>1, <4>2, SuffixTail DEF ByteSeq
    <3> HIDE DEF x, out1, G, F, F0, frame
    <3>6. Len(F) = Len(F0) + Len(a.frames) /\ Len(F) \in Nat /\ Len(F0) \in Nat
          /\ Len(a.frames) \in Nat
      <4>1. Len(F) = Len(F0) + Len(a.frames)
        BY DEF Reached, F, F0
      <4> QED BY <2>2, <3>2, <4>1
    <3>7. x.frames \in Seq(Outgoing) /\ Len(x.frames) = Len(a.frames) + 1
          /\ x.frames[Len(a.frames) + 1] = out1
          /\ \A j \in 1..Len(a.frames) : x.frames[j] = a.frames[j]
      BY <3>1, <3>2
    <3>8. Len(G) = Len(F) + 1 /\ G[Len(F) + 1] = frame /\ \A i \in 1..Len(F) : G[i] = F[i]
      BY <2>1, <2>2, <3>4
    <3>9. ASSUME NEW j \in 1..Len(x.frames)
          PROVE  /\ ~Broken(G[Len(F0) + j])
                 /\ x.frames[j] = transform_frame(G[Len(F0) + j])
      <4>1. CASE j \in 1..Len(a.frames)
        <5>1. Len(F0) + j \in 1..Len(F) /\ x.frames[j] = a.frames[j]
          BY <3>6, <3>7, <4>1
        <5>2. ~Broken(F[Len(F0) + j]) /\ a.frames[j] = transform_frame(F[Len(F0) + j])
          BY <4>1 DEF Reached, F, F0
        <5>3. G[Len(F0) + j] = F[Len(F0) + j]
          BY <3>8, <5>1
        <5> QED BY <5>1, <5>2, <5>3
      <4>2. CASE j = Len(a.frames) + 1
        <5>1. Len(F0) + j = Len(F) + 1
          BY <3>6, <4>2
        <5> QED BY <2>5, <3>7, <3>8, <4>2, <5>1 DEF out1
      <4> QED BY <3>6, <3>7, <4>1, <4>2
    <3>10. Len(G) = Len(F0) + Len(x.frames)
      BY <3>6, <3>7, <3>8
    <3> QED BY <3>1, <3>3, <3>4, <3>5, <3>7, <3>9, <3>10 DEF Reached, x, G, F0
  <2>6. Drain(a).failed = Broken(frame) /\ e \in Nat /\ e >= 2
    BY <2>e, <2>4
  <2> QED BY <1>2, <2>3, <2>5, <2>6
<1> QED BY <1>1, <1>2

Fresh(bytes) == [buffer |-> bytes, frames |-> <<>>, failed |-> FALSE]

\* h[n] is what n rounds make of the bytes, for each n up to N.
Rounds(h, bytes, N) ==
  h = [n \in 0..N |-> IF n = 0 THEN Fresh(bytes) ELSE Drain(h[n - 1])]

\* The recursion of Drained has a solution.
LEMMA RoundsExist ==
  ASSUME NEW bytes, NEW N \in Nat
  PROVE  \E h : Rounds(h, bytes, N)
<1> DEFINE Bad == {k \in Nat : ~\E h : Rounds(h, bytes, k)}
<1>1. Bad = {}
  <2> SUFFICES ASSUME Bad # {} PROVE FALSE
    OBVIOUS
  <2>1. PICK k \in Bad : \A m \in Bad : k <= m
    <3>1. Bad \in SUBSET Nat
      OBVIOUS
    <3> HIDE DEF Bad
    <3> QED BY <3>1, LeastNatural
  <2>2. k # 0
    <3>1. Rounds([q \in 0..0 |-> Fresh(bytes)], bytes, 0)
      BY DEF Rounds
    <3> QED BY <3>1, <2>1
  <2>3. k - 1 \in Nat /\ k - 1 \notin Bad
    BY <2>1, <2>2
  <2>4. PICK h : Rounds(h, bytes, k - 1)
    BY <2>3
  <2> DEFINE g == [q \in 0..k |-> IF q = k THEN Drain(h[k - 1]) ELSE h[q]]
  <2>5. Rounds(g, bytes, k)
    BY <2>1, <2>2, <2>4 DEF Rounds
  <2> QED BY <2>1, <2>5
<1> QED BY <1>1

\* Drained goes through the rounds one by one.
LEMMA DrainedIs ==
  ASSUME NEW bytes, Len(bytes) \in Nat
  PROVE  \E h : /\ h[0] = Fresh(bytes)
                /\ \A n \in 1..Len(bytes) : h[n] = Drain(h[n - 1])
                /\ Drained(bytes) = h[Len(bytes)]
<1> DEFINE after == CHOOSE h : Rounds(h, bytes, Len(bytes))
<1>1. Drained(bytes) = after[Len(bytes)]
  BY DEF Drained, Rounds, Fresh
<1>2. Rounds(after, bytes, Len(bytes))
  BY RoundsExist
<1> HIDE DEF after
<1>3. after[0] = Fresh(bytes)
  BY <1>2 DEF Rounds
<1>4. \A n \in 1..Len(bytes) : after[n] = Drain(after[n - 1])
  BY <1>2 DEF Rounds
<1> QED BY <1>1, <1>3, <1>4

\* The loop on the rest of a stream from f0: it fails, or it has cut off all
\* the frames of the stream.
LEMMA DrainedReaches ==
  ASSUME NEW s \in ByteSeq, NEW f0 \in 1..Len(s) + 1, CutAt(s, f0 - 1).from = f0,
         NEW bytes, bytes = SubSeq(s, f0, Len(s))
  PROVE  /\ Drained(bytes).failed \in BOOLEAN
         /\ \/ Drained(bytes).failed
            \/ \E f : /\ Reached(s, f0, Drained(bytes), f)
                      /\ find_frame_end(Drained(bytes).buffer) = 0
                      /\ find_frame_end(bytes) # 0 => f >= f0 + find_frame_end(bytes)
<1>0. Len(s) \in Nat /\ f0 \in Nat \ {0} /\ f0 <= Len(s) + 1 /\ f0 - 1 \in 0..Len(s)
  BY DEF ByteSeq
<1> DEFINE N == Len(bytes)
           e0 == find_frame_end(bytes)
<1>1. bytes \in ByteSeq /\ N = Len(s) - f0 + 1 /\ N \in Nat
  <2>1. bytes \in ByteSeq /\ N = Len(s) - f0 + 1
    BY <1>0, SliceIs DEF ByteSeq
  <2> QED BY <1>0, <2>1
<1>2. PICK h : /\ h[0] = Fresh(bytes)
               /\ \A n \in 1..N : h[n] = Drain(h[n - 1])
               /\ Drained(bytes) = h[N]
  BY <1>1, DrainedIs
<1> HIDE DEF N, e0
<1> DEFINE At0(n, f) == /\ Reached(s, f0, h[n], f)
                        /\ find_frame_end(h[n].buffer) = 0 \/ f >= f0 + n
                        /\ e0 # 0 => (n = 0 /\ f = f0) \/ f >= f0 + e0
           Ok(n) == /\ h[n].failed \in BOOLEAN
                    /\ h[n].failed \/ \E f : At0(n, f)
           Bad == {n \in 0..N : ~Ok(n)}
<1>3. Ok(0)
  <2>1. h[0].buffer = bytes /\ h[0].frames = <<>> /\ h[0].failed = FALSE
    BY <1>2 DEF Fresh
  <2>2. CutAt(s, f0 - 1).frames \in Seq(ByteSeq)
    BY <1>0, CutType
  <2>3. Len(CutAt(s, f0 - 1).frames) = Len(CutAt(s, f0 - 1).frames) + Len(<<>>)
    <3>1. Len(CutAt(s, f0 - 1).frames) \in Nat /\ Len(<<>>) = 0
      BY <2>2
    <3> QED BY <3>1
  <2>4. f0 \in f0..Len(s) + 1 /\ <<>> \in Seq(Outgoing) /\ 1..Len(<<>>) = {}
    BY <1>0
  <2>5. Reached(s, f0, h[0], f0)
    BY <2>1, <2>3, <2>4, Zenon DEF Reached
  <2>6. f0 >= f0 + 0
    BY <1>0
  <2>7. At0(0, f0)
    BY <2>5, <2>6
  <2> QED BY <2>1, <2>7
<1>4. ASSUME NEW n \in 1..N, Ok(n - 1) PROVE Ok(n)
  <2>1. h[n] = Drain(h[n - 1])
    BY <1>2
  <2>2. CASE h[n - 1].failed
    <3>1. h[n] = h[n - 1]
      BY <2>1, <2>2 DEF Drain
    <3> QED BY <1>4, <2>2, <3>1
  <2>3. CASE ~h[n - 1].failed
    <3>1. PICK f : At0(n - 1, f)
      BY <1>4, <2>3
    <3> DEFINE e == find_frame_end(h[n - 1].buffer)
    <3>2. Reached(s, f0, h[n - 1], f) /\ f \in Nat /\ f >= f0
      <4>1. Reached(s, f0, h[n - 1], f)
        BY <3>1
      <4>2. f \in f0..Len(s) + 1
        BY <4>1 DEF Reached
      <4> QED BY <1>0, <4>1, <4>2
    <3>3. /\ e = 0 => h[n] = h[n - 1]
          /\ e # 0 => /\ e \in Nat /\ e >= 2 /\ h[n].failed \in BOOLEAN
                      /\ h[n].failed \/ Reached(s, f0, h[n], f + e)
      BY <2>1, <3>2, DrainStep
    <3>4. e0 = 0 \/ (e0 \in Nat /\ e0 >= 2)
      BY <1>1, FrameEnd DEF e0
    <3>5. n \in Nat /\ n >= 1 /\ n - 1 \in Nat
      BY <1>1
    <3>6. n - 1 = 0 /\ f = f0 => e = e0
      <4>1. h[0].buffer = bytes
        BY <1>2 DEF Fresh
      <4> QED BY <4>1 DEF e0
    <3>7. CASE e = 0
      <4>1. h[n] = h[n - 1] /\ find_frame_end(h[n].buffer) = 0
        BY <3>3, <3>7
      <4>2. e0 # 0 => f >= f0 + e0
        BY <3>1, <3>6, <3>7
      <4>3. At0(n, f)
        BY <3>2, <4>1, <4>2
      <4> QED BY <1>4, <4>1, <4>3
    <3>8. CASE e # 0 /\ h[n].failed
      BY <3>3, <3>8
    <3>9. CASE e # 0 /\ ~h[n].failed
      <4>1. Reached(s, f0, h[n], f + e) /\ e \in Nat /\ e >= 2 /\ h[n].failed \in BOOLEAN
        BY <3>3, <3>9
      <4>2. f >= f0 + (n - 1)
        BY <3>1, <3>9
      <4>3. f + e >= f0 + n
        <5> HIDE DEF e
        <5> QED BY <1>0, <3>2, <3>5, <4>1, <4>2
      <4>4. e0 # 0 => f + e >= f0 + e0
        <5>1. e0 # 0 => (f = f0 /\ e = e0) \/ f >= f0 + e0
          BY <3>1, <3>6
        <5> HIDE DEF e
        <5> QED BY <1>0, <3>2, <3>4, <4>1, <5>1
      <4>5. At0(n, f + e)
        BY <4>1, <4>3, <4>4
      <4> QED BY <4>1, <4>5
    <3> QED BY <3>7, <3>8, <3>9
  <2> QED BY <2>2, <2>3
<1>5. Ok(N)
  <2>0. N \in 0..N
    BY <1>1
  <2> SUFFICES ASSUME Bad # {} PROVE FALSE
    <3> HIDE DEF Ok
    <3> QED BY <2>0
  <2>1. PICK n \in Bad : \A k \in Bad : n <= k
    <3>1. Bad \in SUBSET Nat
      BY <1>1
    <3> HIDE DEF Bad
    <3> QED BY <3>1, LeastNatural
  <2>2. n \in 0..N /\ ~Ok(n)
    BY <2>1
  <2> HIDE DEF Ok
  <2>3. n \in 1..N /\ n - 1 \in 0..N
    BY <1>1, <1>3, <2>2
  <2>4. Ok(n - 1)
    BY <1>1, <2>1, <2>3
  <2> QED BY <1>4, <2>2, <2>3, <2>4
<1>6. ASSUME NEW f, At0(N, f)
      PROVE  /\ Reached(s, f0, Drained(bytes), f)
             /\ find_frame_end(Drained(bytes).buffer) = 0
             /\ e0 # 0 => f >= f0 + e0
  <2>1. Reached(s, f0, h[N], f)
    BY <1>6
  <2>2. f \in f0..Len(s) + 1 /\ h[N].buffer = SubSeq(s, f, Len(s))
    BY <2>1 DEF Reached
  <2>3. find_frame_end(h[N].buffer) = 0
    <3>1. CASE f >= f0 + N
      <4>1. f \in 1..Len(s) + 1 /\ Len(s) \in f - 1..Len(s) /\ Len(s) - f + 1 = 0
        BY <1>0, <1>1, <2>2, <3>1
      <4>2. h[N].buffer \in ByteSeq /\ Len(h[N].buffer) = 0
        BY <2>2, <4>1, SliceIs DEF ByteSeq
      <4>3. 2..0 = {}
        OBVIOUS
      <4> QED BY <4>2, <4>3, FrameEnd
    <3> QED BY <1>6, <3>1
  <2>4. e0 # 0 => f >= f0 + e0
    <3>1. e0 # 0 => N # 0
      <4>1. 2..0 = {}
        OBVIOUS
      <4> QED BY <1>1, <4>1, FrameEnd DEF e0, N
    <3> QED BY <1>6, <3>1
  <2> QED BY <1>2, <2>1, <2>3, <2>4
<1> QED BY <1>2, <1>5, <1>6 DEF e0

-----------------------------------------------------------------------------
(* The relay *)

\* What was passed on are the first frames of the stream, none of them broken;
\* until a failure it is all of them.
Delivered ==
  LET F == Cut(stream).frames
  IN  /\ out \in Seq(Outgoing)
      /\ Len(out) <= Len(F)
      /\ \A i \in 1..Len(out) : ~Broken(F[i]) /\ out[i] = transform_frame(F[i])
      /\ status # "failed" => Len(out) = Len(F)

\* The buffer is what comes after them, and holds no frame.
Remainder ==
  status # "failed" =>
    /\ buffer = SubSeq(stream, Cut(stream).from, Len(stream))
    /\ find_frame_end(buffer) = 0

EndedBlank == status = "ended" => \A i \in DOMAIN buffer : buffer[i] \in Whitespace

SInv == TypeOK /\ Delivered /\ Remainder /\ EndedBlank /\ BufferBounded

\* A chunk is a short text.
LEMMA ChunkType ==
  ASSUME NEW chunk \in Chunk
  PROVE  chunk \in ByteSeq /\ Len(chunk) \in 1..MaxChunk
<1>1. PICK n \in 1..MaxChunk : chunk \in [1..n -> Byte]
  BY DEF Chunk
<1>2. n \in Nat
  BY SseAssumption
<1>3. chunk \in Seq(Byte) /\ Len(chunk) = n
  BY <1>1, <1>2
<1> QED BY <1>1, <1>3 DEF ByteSeq

\* The bytes push looks at are the rest of the stream from the frame that is
\* not complete yet.
LEMMA BytesAre ==
  ASSUME NEW s \in ByteSeq, NEW t \in ByteSeq
  PROVE  LET f == Cut(s).from
             b == SubSeq(s, f, Len(s))
         IN  /\ f \in 1..Len(s \o t) + 1
             /\ CutAt(s \o t, f - 1) = Cut(s)
             /\ b \in ByteSeq /\ Len(b) = Len(s) - f + 1
             /\ b \o t = SubSeq(s \o t, f, Len(s \o t))
<1> DEFINE f == Cut(s).from
           b == SubSeq(s, f, Len(s))
<1>0. Len(s) \in Nat /\ Len(t) \in Nat
  BY DEF ByteSeq
<1>1. f \in 1..Len(s) + 1 /\ f \in Nat \ {0} /\ f - 1 \in 0..Len(s)
  <2>1. f \in 1..Len(s) + 1
    BY <1>0, CutType DEF Cut
  <2> QED BY <1>0, <2>1
<1> DEFINE u == s \o t
<1>2. /\ u \in ByteSeq /\ Len(u) = Len(s) + Len(t)
      /\ \A i \in 1..Len(s) : u[i] = s[i]
      /\ \A i \in 1..Len(t) : u[Len(s) + i] = t[i]
  BY <1>0 DEF ByteSeq
<1>3. CutAt(u, f - 1) = Cut(s)
  <2>1. CutAt(s, f - 1) = Cut(s)
    BY <1>0, CutBack DEF Cut
  <2> QED BY <1>1, <2>1, CutLocal
<1> HIDE DEF u
<1>4. /\ b \in ByteSeq /\ Len(b) = Len(s) - f + 1
      /\ \A i \in 1..Len(s) - f + 1 : b[i] = s[f + i - 1]
  BY <1>0, <1>1, SliceIs DEF ByteSeq
<1>5. f \in 1..Len(u) + 1
  <2>1. Len(u) = Len(s) + Len(t)
    BY <1>2
  <2> QED BY <1>0, <1>1, <2>1
<1>6. SubSeq(s, f, Len(s)) \o t = SubSeq(u, f, Len(u))
  BY <1>1, SuffixConcat DEF ByteSeq, u
<1> QED BY <1>3, <1>4, <1>5, <1>6 DEF u

\* A frame of buffer and chunk ends in the chunk.
LEMMA EndInChunk ==
  ASSUME NEW b \in ByteSeq, NEW t \in ByteSeq, find_frame_end(b) = 0,
         find_frame_end(b \o t) # 0
  PROVE  find_frame_end(b \o t) \in Nat /\ find_frame_end(b \o t) > Len(b)
<1> DEFINE u == b \o t
           e == find_frame_end(u)
<1>0. /\ Len(b) \in Nat /\ u \in ByteSeq /\ Len(u) \in Nat /\ Len(b) <= Len(u)
      /\ \A i \in 1..Len(b) : u[i] = b[i]
  BY DEF ByteSeq
<1>1. e \in 2..Len(u) /\ Completes(u, 1, e)
  BY <1>0, FrameEnd
<1>2. 0 \notin 2..Len(b)
  BY <1>0
<1>3. \A p \in 1..Len(b) : ~Completes(b, 1, p)
  BY <1>2, FrameEnd
<1>4. e \in Nat /\ e \in 1..Len(u)
  BY <1>0, <1>1
<1> HIDE DEF u, e
<1>5. ASSUME e <= Len(b) PROVE FALSE
  <2>1. e \in 1..Len(b)
    BY <1>0, <1>4, <1>5
  <2>2. Completes(u, 1, e) <=> Completes(b, 1, e)
    <3>1. e <= Len(u) /\ 1 \in Nat \ {0} /\ \A i \in 1..e : u[i] = b[i]
      BY <1>0, <1>4, <1>5
    <3> QED BY <1>0, <2>1, <3>1, CompletesSame
  <2> QED BY <1>1, <1>3, <2>1, <2>2
<1>6. e > Len(b)
  BY <1>0, <1>4, <1>5
<1> QED BY <1>4, <1>6 DEF u, e

\* A chunk that is accepted: what is delivered and what is left are again what
\* the stream says, and what is left is small.
LEMMA PushOpen ==
  ASSUME SInv, NEW chunk \in Chunk, Push(chunk), status' # "failed"
  PROVE  SInv'
<1> DEFINE s == stream \o chunk
           bytes == buffer \o chunk
           d == Drained(bytes)
           f0 == Cut(stream).from
           F0 == Cut(stream).frames
<1>0. /\ status = "open" /\ stream' = s /\ ~Oversize(bytes) /\ ~d.failed
      /\ buffer' = d.buffer /\ out' = out \o d.frames /\ status' = "open"
      /\ Len(stream) + Len(chunk) <= MaxStream
  BY DEF Push
<1>1. /\ stream \in ByteSeq /\ buffer \in ByteSeq /\ chunk \in ByteSeq
      /\ Len(stream) \in Nat /\ Len(buffer) \in Nat
      /\ Len(chunk) \in Nat /\ Len(chunk) <= MaxChunk /\ MaxChunk \in Nat
      /\ MaxEventBytes \in Nat
  <2>1. chunk \in ByteSeq /\ Len(chunk) \in 1..MaxChunk
    BY ChunkType
  <2>2. stream \in ByteSeq /\ buffer \in ByteSeq
    BY DEF SInv, TypeOK, ByteSeq
  <2> QED BY <2>1, <2>2, SseAssumption DEF ByteSeq
<1>2. buffer = SubSeq(stream, f0, Len(stream)) /\ find_frame_end(buffer) = 0
  BY <1>0 DEF SInv, Remainder
<1>3. s \in ByteSeq /\ Len(s) = Len(stream) + Len(chunk)
  BY <1>1, ConcatIs DEF ByteSeq
<1>4. /\ f0 \in 1..Len(s) + 1
      /\ CutAt(s, f0 - 1) = Cut(stream)
      /\ Len(buffer) = Len(stream) - f0 + 1
      /\ bytes = SubSeq(s, f0, Len(s))
  <2> DEFINE b == SubSeq(stream, f0, Len(stream))
  <2>1. /\ f0 \in 1..Len(s) + 1
        /\ CutAt(s, f0 - 1) = Cut(stream)
        /\ Len(b) = Len(stream) - f0 + 1
        /\ b \o chunk = SubSeq(s, f0, Len(s))
    BY <1>1, BytesAre, Zenon
  <2> QED BY <1>2, <2>1, Zenon
<1>5. Len(bytes) = Len(buffer) + Len(chunk) /\ bytes \in ByteSeq
  BY <1>1, ConcatIs DEF ByteSeq
<1> DEFINE e0 == find_frame_end(bytes)
<1>6. PICK f : /\ Reached(s, f0, d, f)
               /\ find_frame_end(d.buffer) = 0
               /\ e0 # 0 => f >= f0 + e0
  <2>1. CutAt(s, f0 - 1).from = f0
    BY <1>4
  <2> HIDE DEF f0, s, bytes, d
  <2>2. /\ Drained(bytes).failed \in BOOLEAN
        /\ \/ Drained(bytes).failed
           \/ \E f : /\ Reached(s, f0, Drained(bytes), f)
                     /\ find_frame_end(Drained(bytes).buffer) = 0
                     /\ find_frame_end(bytes) # 0 => f >= f0 + find_frame_end(bytes)
    BY <1>3, <1>4, <2>1, DrainedReaches
  <2> QED BY <1>0, <2>2 DEF d
<1> HIDE DEF s, bytes, d, f0, F0, e0
<1> DEFINE F == CutAt(s, f - 1).frames
<1>7. /\ f \in f0..Len(s) + 1
      /\ d.buffer = SubSeq(s, f, Len(s))
      /\ d.frames \in Seq(Outgoing)
      /\ CutAt(s, f - 1).from = f
      /\ Len(F) = Len(F0) + Len(d.frames)
      /\ \A j \in 1..Len(d.frames) : /\ ~Broken(F[Len(F0) + j])
                                     /\ d.frames[j] = transform_frame(F[Len(F0) + j])
  BY <1>4, <1>6 DEF Reached, F0
<1>8. f \in Nat /\ f \in 1..Len(s) + 1 /\ f - 1 \in 0..Len(s) /\ f0 \in Nat
      /\ f0 - 1 \in 0..Len(s) /\ f - 1 \in f0 - 1..Len(s) /\ Len(s) \in Nat
      /\ f >= f0 /\ f <= Len(s) + 1 /\ f0 >= 1
  <2>1. Len(s) \in Nat /\ f0 \in 1..Len(s) + 1 /\ f \in f0..Len(s) + 1
    BY <1>3, <1>4, <1>7 DEF ByteSeq
  <2> QED BY <2>1
<1>9. Cut(s) = CutAt(s, f - 1)
  BY <1>3, <1>6, <1>7, <1>8, NextFrame
<1>10. F \in Seq(ByteSeq) /\ F0 \in Seq(ByteSeq) /\ Len(F0) \in Nat /\ Len(F) \in Nat
  <2>1. F \in Seq(ByteSeq) /\ F0 \in Seq(ByteSeq)
    BY <1>3, <1>4, <1>8, CutType DEF F0
  <2> QED BY <2>1
<1>11. \A i \in 1..Len(F0) : F[i] = F0[i]
  <2>1. CutAt(s, f0 - 1).frames = F0
    BY <1>4 DEF F0
  <2> QED BY <1>3, <1>8, <2>1, CutGrows
<1>12. /\ out \in Seq(Outgoing) /\ Len(out) = Len(F0) /\ Len(out) \in Nat
       /\ \A i \in 1..Len(out) : ~Broken(F0[i]) /\ out[i] = transform_frame(F0[i])
  BY <1>0 DEF SInv, Delivered, F0
<1> HIDE DEF F
<1>13. /\ out' \in Seq(Outgoing) /\ Len(out') = Len(F)
       /\ \A i \in 1..Len(out) : out'[i] = out[i]
       /\ \A i \in 1..Len(d.frames) : out'[Len(out) + i] = d.frames[i]
  <2>1. /\ out' \in Seq(Outgoing) /\ Len(out') = Len(out) + Len(d.frames)
        /\ \A i \in 1..Len(out) : out'[i] = out[i]
        /\ \A i \in 1..Len(d.frames) : out'[Len(out) + i] = d.frames[i]
    <3>1. out' = out \o d.frames /\ out \in Seq(Outgoing) /\ d.frames \in Seq(Outgoing)
      BY <1>0, <1>7, <1>12
    <3> QED BY ONLY <3>1, ConcatIs
  <2> QED BY <1>7, <1>12, <2>1
<1>14. ASSUME NEW i \in 1..Len(F)
       PROVE  ~Broken(F[i]) /\ out'[i] = transform_frame(F[i])
  <2>1. Len(d.frames) \in Nat
    BY <1>7
  <2>2. CASE i \in 1..Len(F0)
    BY <1>11, <1>12, <1>13, <2>2
  <2>3. CASE i > Len(F0)
    <3>1. i - Len(F0) \in 1..Len(d.frames) /\ Len(F0) + (i - Len(F0)) = i
      BY <1>7, <1>10, <2>1, <2>3
    <3>2. ~Broken(F[i]) /\ d.frames[i - Len(F0)] = transform_frame(F[i])
      BY <1>7, <3>1
    <3>3. out'[i] = d.frames[i - Len(F0)]
      BY <1>12, <1>13, <3>1
    <3> QED BY <3>2, <3>3
  <2> QED BY <1>10, <2>2, <2>3
<1>15. Delivered'
  <2>1. Cut(stream').frames = F
    BY <1>0, <1>9 DEF F
  <2>2. Len(F) <= Len(F)
    BY <1>10
  <2> QED BY <1>13, <1>14, <2>1, <2>2 DEF Delivered
<1>16. Remainder'
  <2>1. Cut(stream').from = f
    BY <1>0, <1>7, <1>9
  <2> QED BY <1>0, <1>6, <1>7, <2>1 DEF Remainder
<1>17. d.buffer \in ByteSeq /\ Len(d.buffer) = Len(s) - f + 1
  <2>1. d.buffer = SubSeq(s, f, Len(s)) /\ s \in Seq(Byte)
    BY <1>3, <1>7 DEF ByteSeq
  <2>2. f \in 1..Len(s) + 1 /\ Len(s) \in f - 1..Len(s)
    BY <1>8
  <2> QED BY <2>1, <2>2, SliceIs, Zenon DEF ByteSeq
<1>18. TypeOK'
  BY <1>0, <1>3, <1>17 DEF TypeOK, ByteSeq
<1>19. BufferBounded'
  <2>1. CASE e0 = 0
    <3>1. Len(bytes) <= MaxEventBytes
      BY <1>0, <1>1, <1>5, <2>1 DEF Oversize, e0
    <3>2. Len(d.buffer) <= MaxEventBytes
      BY <1>1, <1>3, <1>4, <1>5, <1>8, <1>17, <3>1
    <3> QED BY <1>0, <1>1, <1>8, <1>17, <3>2 DEF BufferBounded
  <2>2. CASE e0 # 0
    <3>1. e0 \in Nat /\ e0 > Len(buffer)
      BY <1>1, <1>2, <2>2, EndInChunk DEF e0, bytes
    <3>2. f >= f0 + e0
      BY <1>6, <2>2
    <3>3. Len(d.buffer) <= MaxChunk
      <4>1. Len(buffer) = Len(stream) - f0 + 1 /\ Len(s) = Len(stream) + Len(chunk)
        BY <1>3, <1>4
      <4>2. Len(d.buffer) = Len(s) - f + 1
        BY <1>17
      <4> QED BY <1>1, <1>8, <3>1, <3>2, <4>1, <4>2
    <3> QED BY <1>0, <1>1, <1>8, <1>17, <3>3 DEF BufferBounded
  <2> QED BY <2>1, <2>2
<1>20. EndedBlank'
  BY <1>0 DEF EndedBlank
<1> QED BY <1>15, <1>16, <1>18, <1>19, <1>20 DEF SInv

\* A chunk that is refused: the stream is longer, what was delivered are still
\* its first frames.
LEMMA PushFails ==
  ASSUME SInv, NEW chunk \in Chunk, Push(chunk), status' = "failed"
  PROVE  SInv'
<1> DEFINE s == stream \o chunk
           F0 == Cut(stream).frames
           F == Cut(s).frames
<1>0. /\ status = "open" /\ stream' = s /\ buffer' = <<>> /\ out' = out
      /\ Len(stream) + Len(chunk) <= MaxStream
  BY DEF Push
<1>1. /\ stream \in ByteSeq /\ chunk \in ByteSeq
      /\ Len(stream) \in Nat /\ Len(chunk) \in Nat
      /\ MaxChunk \in Nat /\ MaxEventBytes \in Nat
  <2>1. chunk \in ByteSeq
    BY ChunkType
  <2>2. stream \in ByteSeq
    BY DEF SInv, TypeOK, ByteSeq
  <2> QED BY <2>1, <2>2, SseAssumption DEF ByteSeq
<1>2. s \in ByteSeq /\ Len(s) = Len(stream) + Len(chunk)
  BY <1>1, ConcatIs DEF ByteSeq
<1>3. CutAt(s, Len(stream)) = Cut(stream)
  BY <1>1, CutLocal DEF Cut
<1>4. Len(F0) <= Len(F) /\ \A i \in 1..Len(F0) : F[i] = F0[i]
  <2> HIDE DEF s
  <2>1. Len(stream) \in 0..Len(s) /\ Len(s) \in Len(stream)..Len(s)
    BY <1>1, <1>2
  <2> QED BY <1>2, <1>3, <2>1, CutGrows DEF Cut
<1>5. F0 \in Seq(ByteSeq) /\ F \in Seq(ByteSeq)
  <2>1. Len(s) \in 0..Len(s) /\ Len(stream) \in 0..Len(stream)
    BY <1>1, <1>2
  <2> QED BY <1>1, <1>2, <2>1, CutType DEF Cut
<1>6. /\ out \in Seq(Outgoing) /\ Len(out) = Len(F0)
      /\ \A i \in 1..Len(out) : ~Broken(F0[i]) /\ out[i] = transform_frame(F0[i])
  BY <1>0 DEF SInv, Delivered
<1> HIDE DEF s, F, F0
<1>7. Delivered'
  <2>1. Cut(stream').frames = F
    BY <1>0 DEF F
  <2>2. \A i \in 1..Len(out) : ~Broken(F[i]) /\ out[i] = transform_frame(F[i])
    BY <1>4, <1>6
  <2>3. Len(out) <= Len(F)
    BY <1>4, <1>6
  <2> QED BY <1>0, <1>6, <2>1, <2>2, <2>3 DEF Delivered
<1>8. Remainder' /\ EndedBlank'
  BY DEF Remainder, EndedBlank
<1>9. TypeOK'
  <2>1. <<>> \in Seq(Byte)
    OBVIOUS
  <2> QED BY <1>0, <1>2, <2>1 DEF TypeOK, ByteSeq
<1>10. BufferBounded'
  <2>1. Len(buffer') = 0
    BY <1>0
  <2> QED BY <1>1, <2>1 DEF BufferBounded
<1> QED BY <1>7, <1>8, <1>9, <1>10 DEF SInv

\* Every reachable state of the relay: what the client has, what is buffered,
\* and what the upstream has sent, agree.
THEOREM SseInvariant == Spec => []SInv
<1>1. Init => SInv
  <2> SUFFICES ASSUME Init PROVE SInv
    OBVIOUS
  <2>1. Cut(<<>>) = Start
    <3>1. Len(<<>>) = 0
      OBVIOUS
    <3> QED BY <3>1, CutAtIs DEF Cut
  <2>2. Cut(stream).from = 1 /\ Cut(stream).frames = <<>>
    BY <2>1 DEF Init, Start
  <2>3. <<>> \in ByteSeq /\ <<>> \in Seq(Outgoing) /\ Len(<<>>) = 0
    BY DEF ByteSeq
  <2>4. find_frame_end(<<>>) = 0
    <3>1. 2..0 = {}
      OBVIOUS
    <3> QED BY <2>3, <3>1, FrameEnd
  <2>5. SubSeq(<<>>, 1, 0) = <<>>
    OBVIOUS
  <2>6. TypeOK
    BY <2>3, SseAssumption DEF Init, TypeOK, ByteSeq
  <2>7. Delivered
    BY <2>2, <2>3 DEF Init, Delivered
  <2>8. Remainder
    BY <2>2, <2>3, <2>4, <2>5 DEF Init, Remainder
  <2>9. EndedBlank /\ BufferBounded
    BY <2>3, SseAssumption DEF Init, EndedBlank, BufferBounded
  <2> QED BY <2>6, <2>7, <2>8, <2>9 DEF SInv
<1>2. SInv /\ [Next]_vars => SInv'
  <2> SUFFICES ASSUME SInv, [Next]_vars PROVE SInv'
    OBVIOUS
  <2>1. ASSUME NEW chunk \in Chunk, Push(chunk) PROVE SInv'
    <3>1. status' = "failed" \/ status' # "failed"
      OBVIOUS
    <3> QED BY <2>1, <3>1, PushOpen, PushFails
  <2>2. CASE Finish
    <3>1. /\ status = "open" /\ UNCHANGED <<stream, buffer, out>>
          /\ status' \in {"ended", "failed"}
          /\ status' = "ended" => \A i \in DOMAIN buffer : buffer[i] \in Whitespace
      BY <2>2 DEF Finish
    <3> QED BY <3>1 DEF SInv, TypeOK, Delivered, Remainder, EndedBlank, BufferBounded
  <2>3. CASE TransportError
    BY <2>3 DEF TransportError, SInv, TypeOK, Delivered, Remainder, EndedBlank,
       BufferBounded
  <2>4. CASE UNCHANGED vars
    BY <2>4 DEF vars, SInv, TypeOK, Delivered, Remainder, EndedBlank, BufferBounded
  <2> QED BY <2>1, <2>2, <2>3, <2>4 DEF Next
<1> QED BY <1>1, <1>2, PTL DEF Spec

\* However the transport cuts the stream, push delivers the stream's own frames
\* in order, and all of them while the relay is open.
THEOREM ChunkingInvisibleHolds == Spec => []ChunkingInvisible
<1>1. SInv => ChunkingInvisible
  <2> SUFFICES ASSUME SInv PROVE ChunkingInvisible
    OBVIOUS
  <2> DEFINE F == Cut(stream).frames
             R == Rendered(stream)
  <2>1. /\ out \in Seq(Outgoing) /\ Len(out) <= Len(F)
        /\ \A i \in 1..Len(out) : ~Broken(F[i]) /\ out[i] = transform_frame(F[i])
        /\ status # "failed" => Len(out) = Len(F)
    BY DEF SInv, Delivered
  <2>2. F \in Seq(ByteSeq)
    <3>1. stream \in ByteSeq /\ Len(stream) \in 0..Len(stream)
      BY DEF SInv, TypeOK, ByteSeq
    <3> QED BY <3>1, CutType DEF Cut
  <2>3. R = [i \in DOMAIN F |-> transform_frame(F[i])]
    BY DEF Rendered
  <2> HIDE DEF F, R
  <2>4. R \in Seq(Outgoing) /\ Len(R) = Len(F)
        /\ \A i \in 1..Len(F) : R[i] = transform_frame(F[i])
    <3>1. Len(F) \in Nat /\ DOMAIN F = 1..Len(F) /\ \A i \in 1..Len(F) : F[i] \in ByteSeq
      BY <2>2
    <3>2. \A i \in 1..Len(F) : transform_frame(F[i]) \in Outgoing
      BY <3>1, TransformType
    <3> HIDE DEF ByteSeq
    <3> QED BY <2>3, <3>1, <3>2
  <2>5. IsPrefix(out, R)
    <3> DEFINE n == Len(out)
               u == SubSeq(out, 1, n)
               v == SubSeq(R, 1, n)
    <3>1. n \in Nat /\ n <= Len(R) /\ Len(R) \in Nat
      BY <2>1, <2>4
    <3> HIDE DEF n
    <3>2. 1 \in 1..Len(out) + 1 /\ n \in 1 - 1..Len(out) /\ 1 \in 1..Len(R) + 1
          /\ n \in 1 - 1..Len(R) /\ n - 1 + 1 = n /\ \A i \in 1..n : 1 + i - 1 = i
      BY <3>1 DEF n
    <3>3. u \in Seq(Outgoing) /\ Len(u) = n /\ \A i \in 1..n : u[i] = out[i]
      <4>1. u \in Seq(Outgoing) /\ Len(u) = n - 1 + 1
            /\ \A i \in 1..n - 1 + 1 : u[i] = out[1 + i - 1]
        <5>1. out \in Seq(Outgoing) /\ 1 \in 1..Len(out) + 1 /\ n \in 1 - 1..Len(out)
          BY <2>1, <3>2
        <5> QED BY ONLY <5>1, SliceIs
      <4> HIDE DEF u
      <4> QED BY <3>2, <4>1
    <3>4. v \in Seq(Outgoing) /\ Len(v) = n /\ \A i \in 1..n : v[i] = R[i]
      <4>1. v \in Seq(Outgoing) /\ Len(v) = n - 1 + 1
            /\ \A i \in 1..n - 1 + 1 : v[i] = R[1 + i - 1]
        <5>1. R \in Seq(Outgoing) /\ 1 \in 1..Len(R) + 1 /\ n \in 1 - 1..Len(R)
          BY <2>4, <3>2
        <5> QED BY ONLY <5>1, SliceIs
      <4> HIDE DEF v
      <4> QED BY <3>2, <4>1
    <3> HIDE DEF u, v
    <3>5. \A i \in 1..n : out[i] = R[i]
      BY <2>1, <2>4, <3>1 DEF n
    <3>6. u = v
      BY <3>3, <3>4, <3>5, SameSeq
    <3> QED BY <3>1, <3>6 DEF IsPrefix, n, u, v
  <2>6. DOMAIN out = 1..Len(out)
    BY <2>1
  <2> QED BY <2>1, <2>5, <2>6 DEF ChunkingInvisible, F, R
<1> QED BY <1>1, SseInvariant, PTL

\* finish accepts a stream only if all of it was delivered, up to blanks.
THEOREM CleanEndIsCompleteHolds == Spec => []CleanEndIsComplete
<1>1. SInv => CleanEndIsComplete
  <2> SUFFICES ASSUME SInv, status = "ended"
               PROVE  /\ out = Rendered(stream)
                      /\ \A i \in Cut(stream).from..Len(stream) : stream[i] \in Whitespace
    BY DEF CleanEndIsComplete
  <2> DEFINE F == Cut(stream).frames
             f == Cut(stream).from
  <2>0. stream \in ByteSeq /\ Len(stream) \in Nat
    BY DEF SInv, TypeOK, ByteSeq
  <2>1. /\ out \in Seq(Outgoing) /\ Len(out) = Len(F)
        /\ \A i \in 1..Len(out) : out[i] = transform_frame(F[i])
    BY DEF SInv, Delivered
  <2>2. F \in Seq(ByteSeq) /\ f \in 1..Len(stream) + 1
    <3>1. Len(stream) \in 0..Len(stream)
      BY <2>0
    <3> QED BY <2>0, <3>1, CutType DEF Cut
  <2>3. out = Rendered(stream)
    <3>1. Rendered(stream) = [i \in DOMAIN F |-> transform_frame(F[i])]
      BY DEF Rendered
    <3> HIDE DEF F
    <3>2. DOMAIN F = 1..Len(F)
      BY <2>2
    <3>3. out = [i \in 1..Len(F) |-> transform_frame(F[i])]
      BY <2>1
    <3> QED BY <3>1, <3>2, <3>3
  <2>4. ASSUME NEW i \in f..Len(stream) PROVE stream[i] \in Whitespace
    <3>1. buffer = SubSeq(stream, f, Len(stream))
          /\ \A k \in DOMAIN buffer : buffer[k] \in Whitespace
      BY DEF SInv, Remainder, EndedBlank
    <3> HIDE DEF f
    <3>2. f \in Nat /\ f >= 1 /\ f <= Len(stream) + 1 /\ Len(stream) \in f - 1..Len(stream)
      BY <2>0, <2>2
    <3>3. /\ buffer \in Seq(Byte) /\ Len(buffer) = Len(stream) - f + 1
          /\ \A k \in 1..Len(stream) - f + 1 : buffer[k] = stream[f + k - 1]
      BY <2>0, <2>2, <3>1, <3>2, SliceIs, Zenon DEF ByteSeq
    <3>4. i - f + 1 \in 1..Len(stream) - f + 1 /\ f + (i - f + 1) - 1 = i
      BY <2>0, <3>2
    <3>5. i - f + 1 \in DOMAIN buffer
      BY <3>3, <3>4
    <3> QED BY <3>1, <3>3, <3>4, <3>5
  <2> QED BY <2>3, <2>4
<1> QED BY <1>1, SseInvariant, PTL

\* push keeps no more than one event, or one chunk, of the stream.
THEOREM BufferBoundedHolds == Spec => []BufferBounded
<1>1. SInv => BufferBounded
  BY DEF SInv
<1> QED BY <1>1, SseInvariant, PTL

=============================================================================
