------------------------------- MODULE Scanner -------------------------------
(***************************************************************************)
(* Scanner::scan of src/detector.rs with resolve_overlaps, as protect      *)
(* calls them on one text: the views of the text are composed breadth      *)
(* first from its decodings, each is also collapsed, detectors find spans  *)
(* of the views, and the findings are resolved.                            *)
(*                                                                         *)
(* What the detectors look for is not modelled: one may match any run of   *)
(* characters of a view.  The spans of the regular expressions and those   *)
(* that scan_private_keys and the other hand-written detectors report are  *)
(* of that form; an index between that is not (one past a character, or 32 *)
(* bytes back) is used to slice the text first, which panics.  The loops   *)
(* of composed_views and scan are one action per round, so that each limit *)
(* is met where the code tests it.                                         *)
(*                                                                         *)
(* A definition whose name ends in "Bug" is a faulty variant of the one    *)
(* that follows it.  Nothing uses it: it is what that operation would be   *)
(* with one plausible mistake, kept to show that a property notices it.    *)
(***************************************************************************)
EXTENDS NormalizerOps, OverlapOps

CONSTANTS
  Texts,            \* the texts scanned, each with a bound on its findings
  ActionOf,         \* class |-> the action protect gives its findings
  SecretClasses,    \* classes that are looked for in collapsed views too
  MaxDecodeLayers,  \* MAX_DECODE_LAYERS
  MaxRegularViews,  \* MAX_REGULAR_VIEWS
  MaxScanViews,     \* MAX_SCAN_VIEWS
  MaxGrowth         \* how many times longer than the normalized text a view
                    \* may get

ASSUME ScannerAssumption ==
  /\ SecretClasses \subseteq DOMAIN ActionOf
  /\ \A class \in DOMAIN ActionOf : ActionOf[class] \in Actions
  /\ {MaxDecodeLayers, MaxRegularViews, MaxScanViews, MaxGrowth} \subseteq Nat \ {0}
  /\ \A t \in Texts : /\ t.source \in Seq(Symbol) /\ ValidUtf8(Raw(t.source))
                      /\ t.max_findings \in Nat

VARIABLES
  text,      \* [source, max_findings]
  phase,     \* "compose", "collapse", "detect", "done", "refused" or
             \* "panicked"
  queue,     \* views still to look at, each with its depth of decoding
  seen,      \* views looked at
  regular,   \* the composed views; while collapsing, those still to collapse
  views,     \* the views to scan, with the flag of collapsed ones
  findings,  \* what the detectors found
  resolved   \* what resolve_overlaps makes of it

vars == <<text, phase, queue, seen, regular, views, findings, resolved>>

\* scan returns an error; protect refuses the request.
Refusal ==
  /\ phase' = "refused"
  /\ UNCHANGED <<text, queue, seen, regular, views, findings, resolved>>

Root(source) == [view |-> normalize(source), depth |-> 0]

Init ==
  /\ text \in Texts
  /\ phase = "compose"
  /\ queue = <<Root(text.source)>>
  /\ seen = {}
  /\ regular = <<>>
  /\ views = <<>>
  /\ findings = <<>>
  /\ resolved = <<>>

-----------------------------------------------------------------------------
(* composed_views.                                                         *)

max_output_bytes == Max({MaxGrowth, MaxGrowth * Len(normalize(text.source))})

WithinLimits(view) ==
  Len(regular) < MaxRegularViews /\ Len(view) <= max_output_bytes

DecodableBug(depth) == depth < MaxDecodeLayers - 1   \* one layer too few

Decodable(depth) == depth < MaxDecodeLayers

\* A decoding that decodes nothing gives no view.
Changed(view, decoded) == IF decoded = view THEN <<>> ELSE <<decoded>>

\* The decodings that change the view, in the order they are queued.
Decodings(view) ==
  Changed(view, decode_json_escapes(view))
    \o Changed(view, decode_percent_encoding(view))

SkipSeen ==
  /\ phase = "compose" /\ queue # <<>>
  /\ Head(queue).view \in seen
  /\ queue' = Tail(queue)
  /\ UNCHANGED <<text, phase, seen, regular, views, findings, resolved>>

RefuseView ==
  /\ phase = "compose" /\ queue # <<>>
  /\ Head(queue).view \notin seen
  /\ ~WithinLimits(Head(queue).view)
  /\ Refusal

\* What the first view of the queue decodes to.
HeadDecodings ==
  IF Decodable(Head(queue).depth) THEN Decodings(Head(queue).view) ELSE <<>>

TakeView ==
  /\ phase = "compose" /\ queue # <<>>
  /\ LET view == Head(queue).view
         next == HeadDecodings
     IN  /\ view \notin seen
         /\ WithinLimits(view)
         /\ \A i \in DOMAIN next : ValidUtf8(next[i])
         /\ queue' = Tail(queue) \o
              [i \in DOMAIN next |-> [view  |-> canonicalize(next[i]),
                                      depth |-> Head(queue).depth + 1]]
         /\ seen' = seen \cup {view}
         /\ regular' = Append(regular, view)
  /\ UNCHANGED <<text, phase, views, findings, resolved>>

DecodeFails ==
  /\ phase = "compose" /\ queue # <<>>
  /\ Head(queue).view \notin seen
  /\ WithinLimits(Head(queue).view)
  /\ \E decoded \in Range(HeadDecodings) : ~ValidUtf8(decoded)
  /\ Refusal

Composed ==
  /\ phase = "compose" /\ queue = <<>>
  /\ phase' = "collapse"
  /\ UNCHANGED <<text, queue, seen, regular, views, findings, resolved>>

-----------------------------------------------------------------------------
(* scan, first loop: each view, and what collapsing makes of it.           *)

CollapsedToo(view) ==
  LET collapsed == collapse_candidate_separators(view)
  IN  <<[view |-> view, secret |-> FALSE]>> \o
      (IF collapsed = view THEN <<>>
       ELSE <<[view |-> collapsed, secret |-> TRUE]>>)

Collapse ==
  /\ phase = "collapse" /\ regular # <<>>
  /\ LET more == CollapsedToo(Head(regular))
     IN  /\ Len(views) + Len(more) <= MaxScanViews
         /\ views' = views \o more
  /\ regular' = Tail(regular)
  /\ UNCHANGED <<text, phase, queue, seen, findings, resolved>>

RefuseCollapsed ==
  /\ phase = "collapse" /\ regular # <<>>
  /\ Len(views) + Len(CollapsedToo(Head(regular))) > MaxScanViews
  /\ Refusal

Collapsed ==
  /\ phase = "collapse" /\ regular = <<>>
  /\ phase' = "detect"
  /\ UNCHANGED <<text, queue, seen, regular, views, findings, resolved>>

-----------------------------------------------------------------------------
(* scan, second loop: a match in a view becomes a finding in the source.   *)
(* Equal findings are dropped; protect adds the action.                    *)

\* First and last index of any nonempty run of characters of the view.
Matches(view) ==
  {part \in (DOMAIN view) \X (DOMAIN view) :
     part[1] <= part[2] /\ ValidUtf8(SubSeq(view, part[1], part[2]))}

finding(view, from, to, class) ==
  LET span == combined_source(view, from, to)
  IN  [data_class |-> class, action |-> ActionOf[class],
       start |-> span.start, end |-> span.end]

Detect(v, from, to, class) ==
  /\ phase = "detect"
  /\ Len(findings) < text.max_findings
  /\ views[v].secret => class \in SecretClasses
  /\ LET found == finding(views[v].view, from, to, class)
     IN  /\ found \notin Range(findings)
         /\ findings' = Append(findings, found)
  /\ UNCHANGED <<text, phase, queue, seen, regular, views, resolved>>

\* A character of several bytes, with text after it in which a detector may
\* find something.
CutsCharacter(view) ==
  \E i \in DOMAIN view : ByteAt(view, i) = "C3" /\ i + 1 < Len(view)

(* scan_configured takes the index after the first byte of the character   *)
(* before a hostname, scan_phone the one 32 bytes before a number; inside  *)
(* a character both panic, and scan returns nothing.                       *)
DetectorPanics(v) ==
  /\ phase = "detect"
  /\ ~views[v].secret
  /\ CutsCharacter(views[v].view)
  /\ phase' = "panicked"
  /\ UNCHANGED <<text, queue, seen, regular, views, findings, resolved>>

Resolve ==
  /\ phase = "detect"
  /\ phase' = "done"
  /\ resolved' = resolve_overlaps(findings)
  /\ UNCHANGED <<text, queue, seen, regular, views, findings>>

Next ==
  \/ SkipSeen \/ RefuseView \/ TakeView \/ DecodeFails \/ Composed
  \/ Collapse \/ RefuseCollapsed \/ Collapsed
  \/ \E v \in DOMAIN views, class \in DOMAIN ActionOf :
       \E part \in Matches(views[v].view) : Detect(v, part[1], part[2], class)
  \/ \E v \in DOMAIN views : DetectorPanics(v)
  \/ Resolve

Spec == Init /\ [][Next]_vars

-----------------------------------------------------------------------------
(* What the views must be.                                                 *)

\* The views reachable from some views by one more decoding.
Layer(from) ==
  UNION {{canonicalize(d) : d \in {e \in Range(Decodings(view)) : ValidUtf8(e)}} :
           view \in from}

\* Every form of the source through at most MaxDecodeLayers decodings.
Forms ==
  LET layer[k \in 0..MaxDecodeLayers] ==
        IF k = 0 THEN {normalize(text.source)} ELSE Layer(layer[k - 1])
  IN  UNION {layer[k] : k \in 0..MaxDecodeLayers}

ViewsOf(secret) == {v.view : v \in {w \in Range(views) : w.secret = secret}}

(* The limits fail closed and no form is skipped silently (views that      *)
(* multiply, equal ones dropped, depth counted per branch): when detection *)
(* begins, every form of the text through two layers of decoding, in any   *)
(* order, is scanned, and so is the collapsed form of each.                *)
NoFormSkipped ==
  phase = "detect" =>
    /\ ViewsOf(FALSE) = Forms
    /\ ViewsOf(TRUE) =
         {collapse_candidate_separators(f) :
            f \in {g \in Forms : collapse_candidate_separators(g) # g}}

Bytes(view) == [i \in DOMAIN view |-> view[i].byte]

\* part stands in whole, without a gap.
Shows(whole, part) ==
  \E k \in 0..Len(whole) - Len(part) : SubSeq(whole, k + 1, k + Len(part)) = part

(* What a detector could see if it were given some source alone: its forms *)
(* through the layers of decoding, each also collapsed.                    *)
Readings(source) ==
  LET More(v) == v \cup {canonicalize(w) : w \in v} \cup Layer(v)
      layer[k \in 0..MaxDecodeLayers] ==
        IF k = 0 THEN {normalize(source)} ELSE More(layer[k - 1])
      forms == layer[MaxDecodeLayers]
  IN  {Bytes(f) : f \in forms \cup {collapse_candidate_separators(f) : f \in forms}}

(* Source maps are right through every composition of decoding, expansion  *)
(* and removal: the source span of a match begins and ends on characters   *)
(* (or rewriting it fails), and it holds all the match came from, so that  *)
(* replacing it leaves nothing of the match in the forwarded text.         *)
SpanCarriesMatch ==
  phase = "detect" /\ findings = <<>> =>
    \A v \in DOMAIN views : \A part \in Matches(views[v].view) :
      LET match == SubSeq(views[v].view, part[1], part[2])
          span  == combined_source(views[v].view, part[1], part[2])
          slice == SubSeq(text.source, span.start + 1, span.end)
      IN  /\ slice # <<>> /\ ValidUtf8(Raw(slice))
          /\ \E reading \in Readings(slice) : Shows(reading, Bytes(match))

-----------------------------------------------------------------------------
(* What the resolved findings must be.                                     *)

Positions(f) == f.start..f.end - 1

(* apply_rewrites replaces the resolved spans from right to left by byte   *)
(* range: that is only meaningful when they are disjoint and in order.     *)
DisjointAscending ==
  \A i, j \in DOMAIN resolved : i < j => resolved[i].end <= resolved[j].start

(* Nothing found is ever handled more weakly than the policy said, and     *)
(* nothing escapes: each finding lies inside one resolved span, whose      *)
(* action is at least as strong.                                           *)
NeverWeaker ==
  phase = "done" => \A i \in DOMAIN findings : \E j \in DOMAIN resolved :
    /\ Positions(findings[i]) \subseteq Positions(resolved[j])
    /\ precedence(resolved[j].action) >= precedence(findings[i].action)

(* Nothing is invented: the resolved spans cover exactly the positions the *)
(* findings cover, and each carries the class and action of a finding that *)
(* lies inside it (the class decides the token label and the TTL).         *)
NothingInvented ==
  phase = "done" =>
    /\ UNION {Positions(resolved[j]) : j \in DOMAIN resolved}
         = UNION {Positions(findings[i]) : i \in DOMAIN findings}
    /\ \A j \in DOMAIN resolved : \E i \in DOMAIN findings :
         /\ Positions(findings[i]) \subseteq Positions(resolved[j])
         /\ findings[i].action = resolved[j].action
         /\ findings[i].data_class = resolved[j].data_class

=============================================================================
