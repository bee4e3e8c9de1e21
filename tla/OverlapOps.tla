------------------------------ MODULE OverlapOps ------------------------------
(***************************************************************************)
(* resolve_overlaps of src/detector.rs: the findings of one text, each with*)
(* the action the policy gives it, are merged into disjoint spans that     *)
(* carry the strongest action of the findings they cover.                  *)
(*                                                                         *)
(* A finding is a record with data_class, start, end (a half-open span)    *)
(* and action.                                                             *)
(*                                                                         *)
(* A definition whose name ends in "Bug" is a faulty variant of the one    *)
(* that follows it.  Nothing uses it: it is what that operation would be   *)
(* with one plausible mistake, kept to show that a property notices it.    *)
(***************************************************************************)
EXTENDS Integers, Sequences, FiniteSets, SequencesExt

Actions == {"block", "mask", "tokenize", "allow"}

precedence(action) ==
  CASE action = "block"    -> 4
    [] action = "mask"     -> 3
    [] action = "tokenize" -> 2
    [] action = "allow"    -> 1

SpanBefore(f, g) == f.start < g.start \/ (f.start = g.start /\ f.end <= g.end)

(* sort_by_key is a stable sort: ties keep the order of the input.         *)
Precedes(findings, i, j) ==
  /\ SpanBefore(findings[i], findings[j])
  /\ SpanBefore(findings[j], findings[i]) => i < j

(* Where a finding comes in that order: how many come no later.            *)
Place(findings, i) ==
  Cardinality({j \in DOMAIN findings : j = i \/ Precedes(findings, j, i)})

SortedBySpan(findings) ==
  [k \in DOMAIN findings |->
     findings[CHOOSE i \in DOMAIN findings : Place(findings, i) = k]]

AtLeastAsStrongBug(f, g) == f.end - f.start >= g.end - g.start   \* longest

(* max_by keeps the LAST of the findings that compare equal.               *)
AtLeastAsStrong(f, g) ==
  \/ precedence(f.action) > precedence(g.action)
  \/ /\ precedence(f.action) = precedence(g.action)
     /\ f.end - f.start >= g.end - g.start

(* A component under construction: its span and its strongest finding.     *)
StartComponent(f) == [start |-> f.start, end |-> f.end, best |-> f]

OverlapsBug(f, component) == f.start < component.end - 1   \* off by one

Overlaps(f, component) == f.start < component.end

WidenBug(component, f) ==   \* the end of the last finding, not the maximum
  [start |-> component.start, end |-> f.end,
   best  |-> IF AtLeastAsStrong(f, component.best) THEN f
             ELSE component.best]

Widen(component, f) ==
  [start |-> component.start,
   end   |-> IF f.end > component.end THEN f.end ELSE component.end,
   best  |-> IF AtLeastAsStrong(f, component.best) THEN f
             ELSE component.best]

Absorb(components, f) ==
  IF components # <<>> /\ Overlaps(f, Last(components))
  THEN [components EXCEPT ![Len(components)] = Widen(@, f)]
  ELSE Append(components, StartComponent(f))

(* The components of the sorted findings, which are read from first to     *)
(* last.                                                                   *)
Components(ordered) ==
  LET merged[n \in 0..Len(ordered)] ==
        IF n = 0 THEN <<>> ELSE Absorb(merged[n - 1], ordered[n])
  IN  merged[Len(ordered)]

resolve_overlaps(findings) ==
  LET components == Components(SortedBySpan(findings))
  IN  [i \in DOMAIN components |->
        [components[i].best EXCEPT !.start = components[i].start,
                                   !.end   = components[i].end]]

=============================================================================
